---- MODULE Spec2Model ----
(***************************************************************************)
(* A model of the brand site discovery pipeline (src/src/search_engine.py) *)
(* and of the product price aggregation (src/src/product_finder.py).       *)
(* Python strings are sequences of one-character strings, so that lower(), *)
(* replace(), substring tests and URL parsing are computed, not assumed.   *)
(***************************************************************************)
EXTENDS Integers, Sequences, FiniteSets, TLC

\* ------------------------------------------------------------------ bounds
\* Largest max_sites argument tried (the parameter's default is 5).
MaxSitesArg == 2

\* ---------------------------------------------------------- Python strings
UpperChars == <<"A","B","C","D","E","F","G","H","I","J","K","L","M","N","O","P","Q","R","S","T","U","V","W","X","Y","Z">>
LowerChars == <<"a","b","c","d","e","f","g","h","i","j","k","l","m","n","o","p","q","r","s","t","u","v","w","x","y","z">>

Min(a, b) == IF a < b THEN a ELSE b

Range(s) == {s[i] : i \in 1..Len(s)}

\* str.lower() on one character
LowerChar(c) ==
  IF \E i \in 1..Len(UpperChars) : UpperChars[i] = c
  THEN LowerChars[CHOOSE i \in 1..Len(UpperChars) : UpperChars[i] = c]
  ELSE c

\* str.lower()
Lower(s) == [i \in 1..Len(s) |-> LowerChar(s[i])]

\* s.startswith(p)
StartsWith(s, p) == Len(p) <= Len(s) /\ SubSeq(s, 1, Len(p)) = p

\* the Python test  sub in s
Contains(s, sub) ==
  \E i \in 0..(Len(s) - Len(sub)) : SubSeq(s, i + 1, i + Len(sub)) = sub

\* s[n:] and s[:n]
Drop(s, n) == SubSeq(s, n + 1, Len(s))
Take(s, n) == SubSeq(s, 1, Min(n, Len(s)))

\* str.replace(old, new): every non-overlapping occurrence, left to right
RECURSIVE Replace(_, _, _)
Replace(s, old, new) ==
  IF Len(s) = 0 THEN <<>>
  ELSE IF Len(old) > 0 /\ StartsWith(s, old)
       THEN new \o Replace(Drop(s, Len(old)), old, new)
       ELSE <<s[1]>> \o Replace(Tail(s), old, new)

\* index of the first element of s that is in the set cs, or Len(s) + 1
RECURSIVE FindFirst(_, _, _)
FindFirst(s, cs, i) ==
  IF i > Len(s) THEN Len(s) + 1
  ELSE IF s[i] \in cs THEN i ELSE FindFirst(s, cs, i + 1)

\* -------------------------------------------------------- region registry
RegionOrder == <<"US", "UK", "Canada", "UAE", "Germany", "Australia", "France", "Japan">>

regions ==
  [r \in Range(RegionOrder) |->
    CASE r = "US"        -> [name |-> "United States", currency |-> "USD", domains |-> <<<<"c","o","m">>, <<"u","s">>>>]
      [] r = "UK"        -> [name |-> "United Kingdom", currency |-> "GBP", domains |-> <<<<"c","o",".","u","k">>, <<"u","k">>>>]
      [] r = "Canada"    -> [name |-> "Canada", currency |-> "CAD", domains |-> <<<<"c","a">>>>]
      [] r = "UAE"       -> [name |-> "United Arab Emirates", currency |-> "AED", domains |-> <<<<"a","e">>>>]
      [] r = "Germany"   -> [name |-> "Germany", currency |-> "EUR", domains |-> <<<<"d","e">>>>]
      [] r = "Australia" -> [name |-> "Australia", currency |-> "AUD", domains |-> <<<<"a","u">>>>]
      [] r = "France"    -> [name |-> "France", currency |-> "EUR", domains |-> <<<<"f","r">>>>]
      [] r = "Japan"     -> [name |-> "Japan", currency |-> "JPY", domains |-> <<<<"j","p">>>>]]

known_retailers ==
  << <<"a","m","a","z","o","n">>, <<"e","b","a","y">>, <<"s","s","e","n","s","e">>, <<"n","e","t","-","a","-","p","o","r","t","e","r">>, <<"f","a","r","f","e","t","c","h">>,
     <<"a","s","o","s">>, <<"l","o","o","k","f","a","n","t","a","s","t","i","c">>, <<"s","e","l","f","r","i","d","g","e","s">>, <<"h","a","r","r","o","d","s">>,
     <<"s","p","o","r","t","s","d","i","r","e","c","t">>, <<"j","d">>, <<"f","o","o","t"," ","l","o","c","k","e","r">>, <<"f","i","n","i","s","h"," ","l","i","n","e">>,
     <<"d","i","c","k","s"," ","s","p","o","r","t","i","n","g"," ","g","o","o","d","s">>, <<"f","i","n","i","s","h"," ","l","i","n","e">>, <<"k","o","h","l">>,
     <<"n","o","r","d","s","t","r","o","m">>, <<"s","a","k","s">>, <<"b","l","o","o","m","i","n","g","d","a","l","e">>, <<"m","a","c","y">> >>

\* ------------------------------------------------------------ URL parsing
\* urlparse(url).netloc: what follows "scheme://" up to the first / ? or #.
\* raised is TRUE where urlparse raises ValueError (an unbalanced bracket).
UrlNetloc(url) ==
  LET colon == FindFirst(url, {":"}, 1)
      rest  == IF colon <= Len(url) THEN Drop(url, colon) ELSE url
      loc   == IF StartsWith(rest, <<"/","/">>)
               THEN LET body == Drop(rest, 2)
                    IN  Take(body, FindFirst(body, {"/", "?", "#"}, 1) - 1)
               ELSE <<>>
  IN  [raised |-> ("[" \in Range(loc)) # ("]" \in Range(loc)), value |-> loc]

\* BrandSearchEngine._extract_domain
ExtractDomain(url) ==
  LET parsed == UrlNetloc(url)
  IN  IF parsed.raised THEN url ELSE Replace(parsed.value, <<"w","w","w",".">>, <<>>)

ClassifyRetailerFirst(url, brand) ==
  LET domain == ExtractDomain(url)
  IN  IF \E i \in 1..Len(known_retailers) : Contains(domain, known_retailers[i])
      THEN "retailer"
      ELSE IF Contains(domain, Lower(brand)) THEN "official" ELSE "unknown"

\* BrandSearchEngine._classify_site
ClassifySite(url, brand) ==
  LET domain      == ExtractDomain(url)
      brand_lower == Lower(brand)
  IN  IF Contains(domain, brand_lower) THEN "official"
      ELSE IF \E i \in 1..Len(known_retailers) : Contains(domain, known_retailers[i])
           THEN "retailer"
           ELSE "unknown"


\* brand_lower of _try_direct_domains: lower-cased, spaces removed
NormalizeBrand(brand_name) == Replace(Lower(brand_name), <<" ">>, <<>>)

\* ------------------------------------------------------------- HTTP layer
\* A response is [kind |-> "resp", status, links] or [kind |-> "exc"] (the
\* request raised: timeout, connection error, invalid URL).
ExcResp == [kind |-> "exc"]
StatusResp(code) == [kind |-> "resp", status |-> code, links |-> <<>>]

\* the text of a link a search result page may hold
LinkText(kind, brand) ==
  LET b == NormalizeBrand(brand)
  IN  CASE kind = "retailer"  -> <<"h","t","t","p","s",":","/","/","w","w","w",".","a","m","a","z","o","n",".","c","o","m","/","s">>
        [] kind = "retailer2" -> <<"h","t","t","p","s",":","/","/","w","w","w",".","e","b","a","y",".","c","o","m">>
        [] kind = "unknown"   -> <<"h","t","t","p","s",":","/","/","s","h","o","e","s",".","o","r","g">>
        [] kind = "shop"      -> <<"h","t","t","p","s",":","/","/","s","h","o","p",".">> \o b \o <<".","c","o","m","/","x">>
        [] kind = "short"     -> <<"h","t","t","p">>
        [] kind = "nohttp"    -> <<"w","w","w",".","a","m","a","z","o","n",".","c","o","m">>
        [] kind = "malformed" -> <<"h","t","t","p",":","/","/","[","x">>

\* the search result pages the environment may serve
Pages ==
  { <<>>,
    <<"retailer">>,
    <<"unknown", "retailer", "shop">>,
    <<"retailer", "retailer2", "short", "nohttp", "malformed">> }

\* the hosts {prefix}{brand}.{tld} the environment may have up
HostWorlds ==
  { {},
    {<<<<"w","w","w",".">>, <<"c","o","m">>>>},
    {<<<<"w","w","w",".">>, <<"c","o","m">>>>, <<<<>>, <<"c","o","m">>>>, <<<<>>, <<"d","e">>>>},
    {<<<<>>, <<"c","o",".","u","k">>>>, <<<<"w","w","w",".">>, <<"u","k">>>>} }

BuildUrl(prefix, brand_lower, domain) ==
  <<"h","t","t","p","s",":","/","/">> \o prefix \o brand_lower \o <<".">> \o domain

\* what a HEAD of url answers when no transient failure hits it
WorldHead(url, brand, hosts) ==
  LET b == NormalizeBrand(brand)
  IN  IF \/ \E h \in hosts : url = BuildUrl(h[1], b, h[2])
         \/ \E k \in {"retailer", "retailer2", "unknown", "shop"} : url = LinkText(k, brand)
      THEN StatusResp(200)
      ELSE ExcResp

\* what a GET of the search page answers when no transient failure hits it
WorldSearch(pg, brand) ==
  [kind |-> "resp", status |-> 200, links |-> [i \in 1..Len(pg) |-> LinkText(pg[i], brand)]]

DomainPatternsRegionOnly(brand_name, region_info) ==
  LET doms == region_info.domains
  IN  [i \in 1..(2 * Len(doms)) |->
         IF i % 2 = 1 THEN BuildUrl(<<"w","w","w",".">>, NormalizeBrand(brand_name), doms[(i + 1) \div 2])
                      ELSE BuildUrl(<<>>, NormalizeBrand(brand_name), doms[i \div 2])]

\* ------------------------------------------------------------ site prober
\* domain_patterns of _try_direct_domains
DomainPatterns(brand_name, region_info) ==
  LET brand_lower == NormalizeBrand(brand_name)
      doms        == region_info.domains
      base        == << BuildUrl(<<"w","w","w",".">>, brand_lower, <<"c","o","m">>),
                        BuildUrl(<<>>, brand_lower, <<"c","o","m">>),
                        BuildUrl(<<"w","w","w",".">>, brand_lower, doms[1]),
                        BuildUrl(<<>>, brand_lower, doms[1]) >>
      extra       == [i \in 1..(2 * Len(doms)) |->
                        IF i % 2 = 1 THEN BuildUrl(<<"w","w","w",".">>, brand_lower, doms[(i + 1) \div 2])
                                     ELSE BuildUrl(<<>>, brand_lower, doms[i \div 2])]
  IN  IF Len(doms) > 1 THEN base \o extra ELSE base

HeadAcceptsAnyStatus(resp) == resp.kind # "exc"

\* the test of one pattern: status < 400 appends, an exception is passed over
HeadAccepted(resp) ==
  IF resp.kind = "exc" THEN FALSE ELSE resp.status < 400

RECURSIVE KeepAccepted(_, _, _)
KeepAccepted(urls, resps, i) ==
  IF i > Len(urls) THEN <<>>
  ELSE (IF HeadAccepted(resps[i]) THEN <<urls[i]>> ELSE <<>>) \o KeepAccepted(urls, resps, i + 1)

\* BrandSearchEngine._try_direct_domains, given the answer to each HEAD
TryDirectDomains(brand_name, region_info, resps) ==
  KeepAccepted(DomainPatterns(brand_name, region_info), resps, 1)

\* the URLs _google_search collects from a page, before set() and the cut
HttpLinks(resp) ==
  IF resp.kind = "exc" THEN {}
  ELSE IF resp.status # 200 THEN {}
  ELSE {resp.links[i] : i \in {j \in 1..Len(resp.links) : StartsWith(resp.links[j], <<"h","t","t","p">>)}}

\* list(a set): its elements in the order of the interpreter's hashing, which
\* hash_order (a sequence holding every string that can be in the set) stands for
RECURSIVE ListOfSet(_, _)
ListOfSet(S, hash_order) ==
  IF hash_order = <<>> THEN <<>>
  ELSE (IF Head(hash_order) \in S THEN <<Head(hash_order)>> ELSE <<>>)
         \o ListOfSet(S, Tail(hash_order))

\* BrandSearchEngine._google_search, given the answer to its GET
GoogleSearch(resp, hash_order) ==
  IF resp.kind = "exc" THEN <<>>
  ELSE IF resp.status # 200 THEN <<>>
  ELSE Take(ListOfSet(HttpLinks(resp), hash_order), 10)

SiteInfo(url, brand_name, region_code) ==
  [url |-> url, domain |-> ExtractDomain(url),
   type |-> ClassifySite(url, brand_name), region |-> region_code]

RECURSIVE SitesOfType(_, _, _, _)
SitesOfType(urls, brand_name, region_code, type) ==
  IF urls = <<>> THEN <<>>
  ELSE LET url == Head(urls)
           rest == SitesOfType(Tail(urls), brand_name, region_code, type)
       IN  IF Len(url) < 5 THEN rest
           ELSE IF SiteInfo(url, brand_name, region_code).type = type
                THEN <<SiteInfo(url, brand_name, region_code)>> \o rest
                ELSE rest

\* the categorisation of _search_region: official first, then three retailers
Categorize(direct_urls, brand_name, region_code) ==
  SitesOfType(direct_urls, brand_name, region_code, "official")
    \o Take(SitesOfType(direct_urls, brand_name, region_code, "retailer"), 3)

\* the URL list _search_region classifies: the reachable patterns or, when
\* there is none, the URLs of the first query that found any
DirectUrls(direct, urls1, urls2, hash_order) ==
  IF direct # <<>> THEN direct
  ELSE IF Range(urls1) # {} THEN ListOfSet(Range(urls1), hash_order)
  ELSE ListOfSet(Range(urls1) \cup Range(urls2), hash_order)

SearchRequestsNoBreak(direct, urls1) == IF direct # <<>> THEN 0 ELSE 2

\* the number of search queries _search_region issues: none when a guessed
\* domain answered, else the queries in order up to the first that found a URL
SearchRequests(direct, urls1) ==
  IF direct # <<>> THEN 0 ELSE IF urls1 # <<>> THEN 1 ELSE 2

\* --------------------------------------------------------- site selector
VerifyRaises(resp) ==
  IF resp.kind = "exc" THEN [raised |-> TRUE, value |-> FALSE]
  ELSE [raised |-> FALSE, value |-> resp.status < 400]

\* BrandSearchEngine.verify_site_accessibility, given the answer to its HEAD
VerifySiteAccessibility(resp) ==
  IF resp.kind = "exc" THEN [raised |-> FALSE, value |-> FALSE]
  ELSE [raised |-> FALSE, value |-> resp.status < 400]

Score(site) == IF site.type = "official" THEN 10 ELSE 5

RECURSIVE InsertAscending(_, _)
InsertAscending(sorted, x) ==
  IF sorted = <<>> THEN <<x>>
  ELSE IF sorted[1].score <= x.score
       THEN <<sorted[1]>> \o InsertAscending(Tail(sorted), x)
       ELSE <<x>> \o sorted

RECURSIVE InsertDescending(_, _)
InsertDescending(sorted, x) ==
  IF sorted = <<>> THEN <<x>>
  ELSE IF sorted[1].score >= x.score
       THEN <<sorted[1]>> \o InsertDescending(Tail(sorted), x)
       ELSE <<x>> \o sorted

RECURSIVE SortAscendingFrom(_, _)
SortAscendingFrom(sites, acc) ==
  IF sites = <<>> THEN acc
  ELSE SortAscendingFrom(Tail(sites), InsertAscending(acc, Head(sites)))

RECURSIVE SortDescendingFrom(_, _)
SortDescendingFrom(sites, acc) ==
  IF sites = <<>> THEN acc
  ELSE SortDescendingFrom(Tail(sites), InsertDescending(acc, Head(sites)))

SortByScoreAscending(sites) == SortAscendingFrom(sites, <<>>)

SortByScoreUnstable(sites) ==
  LET a == SortAscendingFrom(sites, <<>>)
  IN  [i \in 1..Len(a) |-> a[Len(a) + 1 - i]]

\* verified_sites.sort(key=score, reverse=True): a stable sort
SortByScore(sites) == SortDescendingFrom(sites, <<>>)

RECURSIVE VerifiedSites(_, _, _)
VerifiedSites(sites, oks, i) ==
  IF i > Len(sites) THEN <<>>
  ELSE (IF oks[i] THEN <<[url |-> sites[i].url, domain |-> sites[i].domain,
                          type |-> sites[i].type, region |-> sites[i].region,
                          score |-> Score(sites[i])]>>
        ELSE <<>>) \o VerifiedSites(sites, oks, i + 1)

\* the body of the loop of select_best_sites for one region
SelectRegion(sites, oks, max) ==
  Take(SortByScore(VerifiedSites(sites, oks, 1)), max)

\* ------------------------------------------------------ product extraction
\* An element of a page is [name, price, marks]: the text of its first heading
\* or link, the number its price text parses to (in cents, 0 when it holds no
\* price) and the currency marks its text holds (the signs and the tokens EUR
\* and GBP; an element of the price scan holds the sign of its price in symbol).
El(name, price, marks) == [name |-> name, price |-> price, marks |-> marks]
Pr(name, price, symbol) == [name |-> name, price |-> price, symbol |-> symbol]

CurrencyGbpFirst(marks) ==
  IF "pound_sign" \in marks \/ "GBP" \in marks THEN "GBP"
  ELSE IF "euro_sign" \in marks \/ "EUR" \in marks THEN "EUR"
  ELSE "USD"

CurrencyOf(marks) ==
  IF "euro_sign" \in marks \/ "EUR" \in marks THEN "EUR"
  ELSE IF "pound_sign" \in marks \/ "GBP" \in marks THEN "GBP"
  ELSE "USD"

\* ProductFinder._extract_product_from_element: <<product>>, or <<>> for None
ExtractProductFromElement(element, site_url) ==
  IF element.price > 0
  THEN << [name |-> element.name, price |-> element.price,
           currency |-> CurrencyOf(element.marks), url |-> site_url] >>
  ELSE <<>>

RECURSIVE ExtractElements(_, _)
ExtractElements(elements, site_url) ==
  IF elements = <<>> THEN <<>>
  ELSE ExtractProductFromElement(Head(elements), site_url)
         \o ExtractElements(Tail(elements), site_url)

\* the loop over the selectors of _extract_products_from_page
RECURSIVE ScanSelectors(_, _, _, _, _)
ScanSelectors(selected, k, products, site_url, limit) ==
  IF k > Len(selected) THEN [products |-> products, returned |-> FALSE]
  ELSE IF Len(selected[k]) >= 3
       THEN LET more == products \o ExtractElements(Take(selected[k], limit), site_url)
            IN  IF Len(more) >= 3 THEN [products |-> more, returned |-> TRUE]
                ELSE ScanSelectors(selected, k + 1, more, site_url, limit)
       ELSE ScanSelectors(selected, k + 1, products, site_url, limit)

\* the loop of ProductFinder._extract_by_prices over the elements holding a price
RECURSIVE ByPrices(_, _, _, _)
ByPrices(priced, products, site_url, limit) ==
  IF priced = <<>> THEN products
  ELSE LET c == Head(priced)
       IN  IF c.price > 0 /\ Len(c.name) > 5
           THEN LET product == [name |-> c.name, price |-> c.price,
                                currency |-> IF c.symbol = "dollar_sign" THEN "USD"
                                             ELSE IF c.symbol = "euro_sign" THEN "EUR" ELSE "GBP",
                                url |-> site_url]
                    more    == IF \E i \in 1..Len(products) :
                                    Lower(products[i].name) = Lower(product.name)
                               THEN products ELSE Append(products, product)
                IN  IF Len(more) >= limit THEN more
                    ELSE ByPrices(Tail(priced), more, site_url, limit)
           ELSE ByPrices(Tail(priced), products, site_url, limit)

ExtractByPricesUnfiltered(priced, site_url, limit) ==
  [i \in 1..Len(priced) |->
     [name |-> priced[i].name, price |-> priced[i].price, currency |-> "USD", url |-> site_url]]

\* ProductFinder._extract_by_prices
ExtractByPrices(priced, site_url, limit) == ByPrices(priced, <<>>, site_url, limit)

\* ProductFinder._extract_products_from_page
ExtractProductsFromPage(pg, site_url, limit) ==
  LET scan == ScanSelectors(pg.selected, 1, <<>>, site_url, limit)
  IN  IF scan.returned THEN scan.products
      ELSE IF scan.products = <<>> THEN ExtractByPrices(pg.priced, site_url, limit)
      ELSE scan.products

\* ------------------------------------------------------------ page markup
\* A page is a sequence of product cards. A card is one container element
\* <tag class=cls> holding, in document order, a heading <h3> with the text
\* title (none when title is empty), the bare text body, and one child element
\* <holder class=hcls> with the text htext (none when holder is "none"). A
\* currency sign is one character of a text, written dollar_sign, euro_sign or
\* pound_sign. Prices are counted in cents; a price text has at most two
\* decimals.
UpperChar(c) ==
  IF \E i \in 1..Len(LowerChars) : LowerChars[i] = c
  THEN UpperChars[CHOOSE i \in 1..Len(LowerChars) : LowerChars[i] = c]
  ELSE c

\* str.upper()
Upper(s) == [i \in 1..Len(s) |-> UpperChar(s[i])]

DigitChars == <<"0","1","2","3","4","5","6","7","8","9">>
Digits == Range(DigitChars)
Signs == {"dollar_sign", "euro_sign", "pound_sign"}

DigitVal(c) == (CHOOSE i \in 1..Len(DigitChars) : DigitChars[i] = c) - 1

\* the length of the longest run of characters of the set cs that starts at s[i]
RECURSIVE RunLen(_, _, _)
RunLen(s, i, cs) ==
  IF i <= Len(s) /\ s[i] \in cs THEN 1 + RunLen(s, i + 1, cs) ELSE 0

\* the length of the match of  [\d,]+\.?\d*  at s[i], 0 when there is none
NumberLen(s, i) ==
  LET n1  == RunLen(s, i, Digits \cup {","})
      dot == IF i + n1 <= Len(s) /\ s[i + n1] = "." THEN 1 ELSE 0
  IN  IF n1 = 0 THEN 0 ELSE n1 + dot + RunLen(s, i + n1 + dot, Digits)

\* the length of the match of a sign, blanks (where the pattern allows them)
\* and a number at s[i], 0 when there is none
SignPriceLen(s, i, blanks) ==
  IF s[i] \in Signs
  THEN LET sp == IF blanks THEN RunLen(s, i + 1, {" "}) ELSE 0
           n  == NumberLen(s, i + 1 + sp)
       IN  IF n = 0 THEN 0 ELSE 1 + sp + n
  ELSE 0

\* the length of the match of a number, blanks and USD, EUR or GBP at s[i]
TokenPriceLen(s, i) ==
  LET n  == NumberLen(s, i)
      sp == RunLen(s, i + n, {" "})
  IN  IF n > 0 /\ i + n + sp + 2 <= Len(s)
              /\ SubSeq(s, i + n + sp, i + n + sp + 2) \in {<<"U","S","D">>, <<"E","U","R">>, <<"G","B","P">>}
      THEN n + sp + 3 ELSE 0

\* re.search: the leftmost match, <<>> for None; len_at(i) is the length of
\* the match at s[i]
FirstMatch(s, len_at) ==
  LET I == {i \in 1..Len(s) : len_at[i] > 0}
  IN  IF I = {} THEN <<>>
      ELSE LET i == CHOOSE j \in I : \A k \in I : j <= k
           IN  SubSeq(s, i, i + len_at[i] - 1)

\* price_patterns[0] of _extract_product_from_element
SearchSignBlankPrice(s) == FirstMatch(s, [i \in 1..Len(s) |-> SignPriceLen(s, i, TRUE)])
\* price_patterns[1] of _extract_product_from_element
SearchTokenPrice(s) == FirstMatch(s, [i \in 1..Len(s) |-> TokenPriceLen(s, i)])
\* price_pattern of _extract_by_prices
SearchSignPrice(s) == FirstMatch(s, [i \in 1..Len(s) |-> SignPriceLen(s, i, FALSE)])

RECURSIVE DigitsValue(_, _)
DigitsValue(ds, acc) ==
  IF ds = <<>> THEN acc ELSE DigitsValue(Tail(ds), 10 * acc + DigitVal(Head(ds)))

IsDigitOrDot(c) == c \in Digits \cup {"."}

\* float(re.sub(r'[^\d.]', '', price_str)), in cents: raised stands for the
\* ValueError of a text without a digit
ParseFloat(price_str) ==
  LET kept  == SelectSeq(price_str, IsDigitOrDot)
      d     == FindFirst(kept, {"."}, 1)
      whole == SubSeq(kept, 1, d - 1)
      frac  == SubSeq(kept, d + 1, Len(kept))
      cents == SubSeq(frac \o <<"0","0">>, 1, 2)
  IN  IF whole = <<>> /\ frac = <<>>
      THEN [raised |-> TRUE, value |-> 0]
      ELSE [raised |-> FALSE, value |-> 100 * DigitsValue(whole, 0) + DigitsValue(cents, 0)]

\* the price _extract_product_from_element reads in the text of an element:
\* the patterns in order, a match that parses replacing the price, a match
\* above zero ending the loop
PriceAfterPattern(price, match) ==
  IF match = <<>> THEN price
  ELSE IF ParseFloat(match).raised THEN price ELSE ParseFloat(match).value

ElementPrice(text) ==
  LET p1 == PriceAfterPattern(0, SearchSignBlankPrice(text))
  IN  IF p1 > 0 THEN p1 ELSE PriceAfterPattern(p1, SearchTokenPrice(text))

\* the currency marks _extract_product_from_element tests an element's text for
MarksOf(text) ==
  {m \in {"euro_sign", "pound_sign", "dollar_sign"} : m \in Range(text)}
    \cup (IF Contains(Upper(text), <<"E","U","R">>) THEN {"EUR"} ELSE {})
    \cup (IF Contains(Upper(text), <<"G","B","P">>) THEN {"GBP"} ELSE {})

Card(tag, cls, title, body, holder, hcls, htext) ==
  [tag |-> tag, cls |-> cls, title |-> title, body |-> body,
   holder |-> holder, hcls |-> hcls, htext |-> htext]

\* get_text() of a card's container and of the whole document
CardText(card) == card.title \o card.body \o card.htext

RECURSIVE DocText(_)
DocText(cards) == IF cards = <<>> THEN <<>> ELSE CardText(Head(cards)) \o DocText(Tail(cards))

\* the seven selectors of _extract_products_from_page: whether the k-th one
\* matches an element of this tag and class (no element carries a data attribute)
SelectorMatches(k, tag, cls) ==
  \/ k = 1 /\ tag = "div" /\ Contains(cls, <<"p","r","o","d","u","c","t">>)
  \/ k = 2 /\ tag = "article" /\ Contains(cls, <<"p","r","o","d","u","c","t">>)
  \/ k = 3 /\ tag = "li" /\ Contains(cls, <<"p","r","o","d","u","c","t">>)
  \/ k = 4 /\ tag = "div" /\ Contains(cls, <<"i","t","e","m">>)
  \/ k = 5 /\ tag = "article" /\ Contains(cls, <<"i","t","e","m">>)

\* what _extract_product_from_element reads in a container and in a child
ContainerElement(card) ==
  El(IF card.title # <<>> THEN card.title ELSE <<"P","r","o","d","u","c","t">>,
     ElementPrice(CardText(card)), MarksOf(CardText(card)))

HolderElement(card) ==
  El(<<"P","r","o","d","u","c","t">>, ElementPrice(card.htext), MarksOf(card.htext))

\* soup.select(selector): the matching elements in document order
RECURSIVE Selected(_, _)
Selected(cards, k) ==
  IF cards = <<>> THEN <<>>
  ELSE LET c == Head(cards)
       IN  (IF SelectorMatches(k, c.tag, c.cls) THEN <<ContainerElement(c)>> ELSE <<>>)
             \o (IF c.holder # "none" /\ SelectorMatches(k, c.holder, c.hcls)
                 THEN <<HolderElement(c)>> ELSE <<>>)
             \o Selected(Tail(cards), k)

\* what _extract_by_prices reads in an element of text `text` whose name,
\* before the test of its length, is `name`: nothing when no price matches
PricedElement(text, name) ==
  LET price_str == SearchSignPrice(text)
  IN  IF price_str = <<>> THEN <<>>
      ELSE << Pr(name, ParseFloat(price_str).value, price_str[1]) >>

\* the name _extract_by_prices gives a container: the text of its first heading,
\* link or span, else the first 50 characters of its parent's text
ContainerName(card, doc_text) ==
  LET child == IF card.title # <<>> THEN card.title
               ELSE IF card.holder = "span" THEN card.htext ELSE <<>>
  IN  IF child # <<>> THEN child ELSE Take(doc_text, 50)

\* soup.find_all(['div', 'article', 'li', 'span', 'p']) in document order, as
\* _extract_by_prices reads the elements that hold a price
RECURSIVE PricedIn(_, _)
PricedIn(cards, doc_text) ==
  IF cards = <<>> THEN <<>>
  ELSE LET c == Head(cards)
       IN  PricedElement(CardText(c), ContainerName(c, doc_text))
             \o (IF c.holder \in {"div", "span", "p"}
                 THEN PricedElement(c.htext, Take(CardText(c), 50)) ELSE <<>>)
             \o PricedIn(Tail(cards), doc_text)

\* the page BeautifulSoup makes of the markup
PageOf(cards) ==
  [selected |-> [k \in 1..7 |-> Selected(cards, k)],
   priced   |-> PricedIn(cards, DocText(cards))]

\* ---------------------------------------------------------- product search
\* str.rstrip('/')
RECURSIVE RStripSlash(_)
RStripSlash(s) ==
  IF s # <<>> /\ s[Len(s)] = "/" THEN RStripSlash(SubSeq(s, 1, Len(s) - 1)) ELSE s

\* search_urls of ProductFinder.search_products
SearchUrls(site_url, search_query) ==
  LET base_url == RStripSlash(site_url)
      q        == Replace(search_query, <<" ">>, <<"+">>)
  IN  << base_url \o <<"/","s","e","a","r","c","h","?","q","=">> \o q,
         base_url \o <<"/","s","e","a","r","c","h","?","q","u","e","r","y","=">> \o q,
         base_url \o <<"/","p","r","o","d","u","c","t","s","?","s","e","a","r","c","h","=">> \o q,
         base_url \o <<"/","s","h","o","p","?","s","e","a","r","c","h","=">> \o q >>

NameFilterOff(search_query, name) == TRUE

\* the filter of search_products: search_query.lower() in name.lower()
NameMatches(search_query, name) == Contains(Lower(name), Lower(search_query))

RECURSIVE FilterByQuery(_, _)
FilterByQuery(page_products, search_query) ==
  IF page_products = <<>> THEN <<>>
  ELSE (IF NameMatches(search_query, Head(page_products).name)
        THEN <<Head(page_products)>> ELSE <<>>)
         \o FilterByQuery(Tail(page_products), search_query)

\* the loop of search_products over its search URLs, given the answer to each GET
RECURSIVE SearchLoop(_, _, _, _, _)
SearchLoop(resps, k, products, site_url, search_query) ==
  IF k > Len(resps) THEN products
  ELSE IF resps[k].kind = "exc" THEN SearchLoop(resps, k + 1, products, site_url, search_query)
  ELSE IF resps[k].status = 200
       THEN LET page_products == ExtractProductsFromPage(resps[k].page, site_url, 5)
                more          == products \o FilterByQuery(page_products, search_query)
            IN  IF more # <<>> THEN more
                ELSE SearchLoop(resps, k + 1, more, site_url, search_query)
       ELSE SearchLoop(resps, k + 1, products, site_url, search_query)

\* ProductFinder.search_products
SearchProducts(site_url, search_query, resps) ==
  SearchLoop(resps, 1, <<>>, site_url, search_query)

\* ------------------------------------------------------- product listing
\* search_patterns of _search_products_on_site
SearchPatterns(site_url, query) ==
  LET base_url == RStripSlash(site_url)
  IN  << base_url \o <<"/","s","e","a","r","c","h","?","q","=">> \o query,
         base_url \o <<"/","s","e","a","r","c","h","?","q","u","e","r","y","=">> \o query,
         base_url \o <<"/","p","r","o","d","u","c","t","s","?","s","e","a","r","c","h","=">> \o query,
         base_url \o <<"/","s","h","o","p","?","s","e","a","r","c","h","=">> \o query,
         base_url \o <<"/","c","o","l","l","e","c","t","i","o","n","s","/","a","l","l">>,
         base_url \o <<"/","p","r","o","d","u","c","t","s">> >>

\* shop_urls of _scrape_shop_page
ShopUrls(site_url) ==
  LET base_url == RStripSlash(site_url)
  IN  << base_url \o <<"/","s","h","o","p">>, base_url \o <<"/","p","r","o","d","u","c","t","s">>, base_url \o <<"/","c","a","t","a","l","o","g">>,
         base_url \o <<"/","s","t","o","r","e">>, base_url >>

\* collections_urls of _scrape_collections_page
CollectionsUrls(site_url) ==
  LET base_url == RStripSlash(site_url)
  IN  << base_url \o <<"/","c","o","l","l","e","c","t","i","o","n","s","/","a","l","l">>, base_url \o <<"/","c","o","l","l","e","c","t","i","o","n","s","/","p","r","o","d","u","c","t","s">> >>

RECURSIVE ScrapeUrlsAbortOnFailure(_, _, _, _, _)
ScrapeUrlsAbortOnFailure(resps, k, products, site_url, limit) ==
  IF k > Len(resps) THEN [products |-> products, fetched |-> Len(resps)]
  ELSE IF resps[k].kind = "exc" \/ resps[k].status # 200
       THEN [products |-> products, fetched |-> k]
       ELSE LET found == ExtractProductsFromPage(resps[k].page, site_url, limit)
            IN  IF Len(found) >= 3 THEN [products |-> found, fetched |-> k]
                ELSE ScrapeUrlsAbortOnFailure(resps, k + 1, found, site_url, limit)

\* the loop the strategies share, given the answer to the GET of each URL of
\* the list: the products of the page fetched last replace the ones held, three
\* or more end the loop, a failed GET or a status other than 200 passes to the
\* next URL. fetched counts the GETs issued.
RECURSIVE ScrapeUrls(_, _, _, _, _)
ScrapeUrls(resps, k, products, site_url, limit) ==
  IF k > Len(resps) THEN [products |-> products, fetched |-> Len(resps)]
  ELSE IF resps[k].kind = "exc" THEN ScrapeUrls(resps, k + 1, products, site_url, limit)
  ELSE IF resps[k].status = 200
       THEN LET found == ExtractProductsFromPage(resps[k].page, site_url, limit)
            IN  IF Len(found) >= 3 THEN [products |-> found, fetched |-> k]
                ELSE ScrapeUrls(resps, k + 1, found, site_url, limit)
       ELSE ScrapeUrls(resps, k + 1, products, site_url, limit)

\* the test of a link of the home page in _scrape_category_page
IsCategoryLink(link) ==
  /\ \E word \in {<<"c","a","t","e","g","o","r","y">>, <<"c","o","l","l","e","c","t","i","o","n">>, <<"m","e","n">>, <<"w","o","m","e","n">>, <<"p","r","o","d","u","c","t">>} :
       Contains(Lower(link.href), word)
  /\ Len(link.text) > 2
  /\ Len(link.text) < 30
  /\ Lower(link.text) \notin {<<"h","o","m","e">>, <<"a","b","o","u","t">>, <<"c","o","n","t","a","c","t">>}

\* the URL _scrape_category_page makes of an href
CategoryUrl(href, base_url) ==
  IF StartsWith(href, <<"h","t","t","p">>) THEN href
  ELSE base_url \o (IF StartsWith(href, <<"/">>) THEN <<>> ELSE <<"/">>) \o href

\* category_links[:3]
CategoryLinks(links, site_url) ==
  LET kept == SelectSeq(links, IsCategoryLink)
  IN  Take([i \in 1..Len(kept) |-> CategoryUrl(kept[i].href, RStripSlash(site_url))], 3)

\* the number of GETs search_products issues, given the answer to each: it
\* returns at the first URL after which it holds a product
RECURSIVE SearchFetched(_, _, _, _)
SearchFetched(resps, k, site_url, search_query) ==
  IF k >= Len(resps) THEN Len(resps)
  ELSE IF SearchLoop(SubSeq(resps, 1, k), 1, <<>>, site_url, search_query) # <<>> THEN k
  ELSE SearchFetched(resps, k + 1, site_url, search_query)

TopAcceptsAny(strategies, limit) ==
  LET I == {i \in 1..Len(strategies) : strategies[i].products # <<>>}
  IN  IF I = {} THEN <<>>
      ELSE Take(strategies[CHOOSE i \in I : \A j \in I : i <= j].products, limit)

\* the loop of get_top_products over the strategies' results
RECURSIVE TopPick(_, _)
TopPick(strategies, limit) ==
  IF strategies = <<>> THEN <<>>
  ELSE IF Head(strategies).products # <<>> /\ Len(Head(strategies).products) >= 3
       THEN Take(Head(strategies).products, limit)
       ELSE TopPick(Tail(strategies), limit)

\* ------------------------------------------------------ product aggregator
\* site_info['url'] if isinstance(site_info, dict) else site_info
SiteUrlOf(site_info) ==
  IF site_info.kind = "dict" THEN site_info.url ELSE site_info.value

RECURSIVE PriceEntriesFirstOnly(_, _)
PriceEntriesFirstOnly(products, site_url) ==
  IF products = <<>> THEN <<>>
  ELSE IF Head(products).price > 0
       THEN << [site |-> site_url, price |-> Head(products).price,
                currency |-> Head(products).currency, name |-> Head(products).name] >>
       ELSE PriceEntriesFirstOnly(Tail(products), site_url)

\* the entries aggregate_product_prices appends for the products of one site
RECURSIVE PriceEntries(_, _)
PriceEntries(products, site_url) ==
  IF products = <<>> THEN <<>>
  ELSE (IF Head(products).price > 0
        THEN << [site |-> site_url, price |-> Head(products).price,
                 currency |-> Head(products).currency, name |-> Head(products).name] >>
        ELSE <<>>) \o PriceEntries(Tail(products), site_url)

StoreRegionAlways(agg, region, prices) ==
  Append(agg, [region |-> region, prices |-> prices])

\* if region_prices: aggregated[region] = region_prices
StoreRegion(agg, region, prices) ==
  IF prices # <<>> THEN Append(agg, [region |-> region, prices |-> prices]) ELSE agg

\* ----------------------------------------------------------- best deal
\* In this part a price is counted in thousandths, so that a price may have
\* more decimals than the two it is displayed with.
\* str() of a natural number
RECURSIVE NatText(_)
NatText(n) ==
  IF n < 10 THEN <<DigitChars[n + 1]>> ELSE NatText(n \div 10) \o <<DigitChars[(n % 10) + 1]>>

\* f"{price:.2f}": the price rounded to the nearest hundredth (no price tried
\* lies halfway between two hundredths)
Format2f(price) ==
  LET hundredths == (price + 5) \div 10
  IN  NatText(hundredths \div 100) \o <<".">>
        \o <<DigitChars[((hundredths \div 10) % 10) + 1], DigitChars[(hundredths % 10) + 1]>>

\* min(items, key=...) of Python: the first of the items whose key is least
MinFirst(items, keys) ==
  items[CHOOSE i \in 1..Len(items) :
          /\ \A j \in 1..Len(items) : keys[i] <= keys[j]
          /\ \A j \in 1..(i - 1) : keys[j] > keys[i]]

\* PriceComparisonAnalyzer.calculate_best_deal: prices is the mapping region ->
\* price entry in insertion order; "None" stands for None
CalculateBestDeal(prices) ==
  IF prices = <<>> THEN "None"
  ELSE MinFirst(prices, [i \in 1..Len(prices) |-> prices[i].price]).region

IsPresent(cell) == cell.present

\* one product of get_price_comparison: the prices of its row that are not NaN,
\* the least of them and the first region that has it; "None" when the product
\* gets no entry
PriceComparison(row) ==
  LET prices == SelectSeq(row, IsPresent)
      values == [i \in 1..Len(prices) |-> prices[i].price]
  IN  IF prices = <<>> THEN [region |-> "None", price |-> 0]
      ELSE [region |-> MinFirst(prices, values).region,
            price  |-> MinFirst(values, values)]

\* the letters of a currency code the extraction gives
CurrencyText(currency) ==
  CASE currency = "USD" -> <<"U","S","D">>
    [] currency = "EUR" -> <<"E","U","R">>
    [] currency = "GBP" -> <<"G","B","P">>

\* the rows app.py makes of the price entries; the field price keeps, next to
\* the displayed text, the price the row was made of
ComparisonData(prices) ==
  [i \in 1..Len(prices) |->
     [region |-> prices[i].region,
      text   |-> CurrencyText(prices[i].currency) \o Format2f(prices[i].price),
      price  |-> prices[i].price]]

\* best_entry of app.py: the first row whose displayed price, read back as a
\* number (the digits and the point of the text), is least
BestEntry(comparison_data) ==
  MinFirst(comparison_data,
           [i \in 1..Len(comparison_data) |-> ParseFloat(comparison_data[i].text).value])

\* ------------------------------------------------------------- discount
\* A value handed to _calculate_discount is None, NaN or a number:
\* [kind |-> "none"], [kind |-> "nan"] or [kind |-> "num", value |-> n].
\* f"{x:.1f}" of the quotient num / den, neither negative: rounded to tenths
Format1f(num, den) ==
  LET tenths == (20 * num + den) \div (2 * den)
  IN  NatText(tenths \div 10) \o <<".">> \o <<DigitChars[(tenths % 10) + 1]>>

CalculateDiscountSwapped(o, c) ==
  IF o.kind # "num" \/ c.kind # "num" THEN <<"N","/","A">>
  ELSE IF o.value = 0 \/ c.value = 0 THEN <<"N","/","A">>
  ELSE IF o.value < c.value THEN Format1f((c.value - o.value) * 100, o.value) \o <<"%"," ","O","F","F">>
  ELSE IF o.value > c.value THEN Format1f((o.value - c.value) * 100, o.value) \o <<"%"," ","U","P">>
  ELSE <<"N","o"," ","C","h","a","n","g","e">>

\* DataProcessor._calculate_discount: the discount is the quotient
\* (original - current) * 100 / original, kept here as numerator and denominator
CalculateDiscount(o, c) ==
  LET not(x) == x.kind = "none" \/ (x.kind = "num" /\ x.value = 0)
      isna(x) == x.kind \in {"none", "nan"}
      num == (o.value - c.value) * 100
      den == o.value
      abs(n) == IF n < 0 THEN -n ELSE n
  IN  IF not(o) \/ not(c) \/ isna(o) \/ isna(c) THEN <<"N","/","A">>
      ELSE IF o.value = 0 THEN <<"N","/","A">>
      ELSE IF num * den > 0 THEN Format1f(abs(num), abs(den)) \o <<"%"," ","O","F","F">>
      ELSE IF num * den < 0 THEN Format1f(abs(num), abs(den)) \o <<"%"," ","U","P">>
      ELSE <<"N","o"," ","C","h","a","n","g","e">>

\* ---------------------------------------------------------------- cache
SecondsPerDay == 86400

\* timedelta.seconds of a time span of elapsed whole seconds, elapsed >= 0:
\* the seconds left over after its days
TimedeltaSeconds(elapsed) == elapsed % SecondsPerDay

\* get_cached_results on a file that exists and loads: whether it is expired
Expired(file, clock) == TimedeltaSeconds(clock - file.timestamp) > file.duration

\* --------------------------------------------------------------- markup
\* PriceComparisonAnalyzer.calculate_price_markup on the mapping prices: the
\* markup of a region is the quotient (price - min_price) * 100 / min_price,
\* kept as numerator and denominator; the division by a min_price of zero
\* raises ZeroDivisionError
CalculatePriceMarkup(prices) ==
  IF Len(prices) < 2 THEN [raised |-> FALSE, value |-> <<>>]
  ELSE LET values == [i \in 1..Len(prices) |-> prices[i].price]
           min_price == MinFirst(values, values)
       IN  IF min_price = 0 THEN [raised |-> TRUE, value |-> <<>>]
           ELSE [raised |-> FALSE,
                 value  |-> [i \in 1..Len(prices) |->
                               [region |-> prices[i].region,
                                num |-> (prices[i].price - min_price) * 100,
                                den |-> min_price]]]

\* ------------------------------------------------------ regional scraper
\* the number of elements of a regional page that are read
RegionLimit == 10

\* A regional page answers a GET by a failure (ExcResp, or a status that
\* raise_for_status rejects) or by the elements its first matching selector
\* gives; an element is [name, has_price, price, link], name <<>> when no name
\* is found in it.
\* RegionalBrandScraper._extract_product_info: <<product>>, or <<>> for None
ExtractProductInfo(element, region) ==
  IF element.name = <<>> \/ ~element.has_price THEN <<>>
  ELSE << [name |-> element.name, region |-> region, price |-> element.price,
           link |-> element.link] >>

RECURSIVE ExtractInfos(_, _)
ExtractInfos(elements, region) ==
  IF elements = <<>> THEN <<>>
  ELSE ExtractProductInfo(Head(elements), region) \o ExtractInfos(Tail(elements), region)

\* RegionalBrandScraper._scrape_region, given the answer to its GET
ScrapeRegion(resp, region) ==
  IF resp.kind = "exc" \/ resp.status >= 400 THEN <<>>
  ELSE ExtractInfos(Take(resp.elements, RegionLimit), region)

\* d[region] = value on a mapping kept in insertion order
PutKey(d, region, value) ==
  IF \E i \in 1..Len(d) : d[i].region = region
  THEN [i \in 1..Len(d) |-> IF d[i].region = region THEN [region |-> region, value |-> value] ELSE d[i]]
  ELSE Append(d, [region |-> region, value |-> value])

\* the key under which scrape_brand_regional merges a product
MergeKeyExact(name) == name

MergeKey(name) == Lower(name)

\* the body of the loop "for product in products" of scrape_brand_regional
MergeProduct(all, product, region) ==
  LET key  == MergeKey(product.name)
      base == IF \E i \in 1..Len(all) : all[i].key = key THEN all
              ELSE Append(all, [key |-> key, name |-> product.name, prices |-> <<>>, links |-> <<>>])
  IN  [i \in 1..Len(base) |->
         IF base[i].key = key
         THEN [base[i] EXCEPT !.prices = PutKey(@, region, product.price),
                              !.links = PutKey(@, region, product.link)]
         ELSE base[i]]

RECURSIVE MergeProducts(_, _, _)
MergeProducts(all, products, region) ==
  IF products = <<>> THEN all
  ELSE MergeProducts(MergeProduct(all, Head(products), region), Tail(products), region)

\* the mappings a call of select_best_sites starts with: brand_sites = {} of
\* search_brand_globally and selected_sites = {} of select_best_sites, whatever
\* an earlier call on the instance left
KeptMappings(earlier_brand_sites, earlier_selected_sites) ==
  [brand_sites |-> earlier_brand_sites, selected_sites |-> earlier_selected_sites]

FreshMappings(earlier_brand_sites, earlier_selected_sites) ==
  [brand_sites |-> <<>>, selected_sites |-> <<>>]

\* ------------------------------------------------------ the environment
\* a response really was a success: the fact the claims speak about
HeadOk(resp) == resp.kind = "resp" /\ resp.status < 400

\* the orders in which the interpreter may list a set of links
HashOrders ==
  { <<"retailer", "retailer2", "unknown", "shop", "short", "malformed">>,
    <<"malformed", "short", "shop", "unknown", "retailer2", "retailer">> }

\* transient failures: the requests <<kind, region, index>> that fail (a HEAD of
\* the index-th pattern, the index-th search GET, the check of the index-th site)
\* and what they answer
FailurePatterns ==
  { [reqs |-> {}, resp |-> ExcResp],
    [reqs |-> {<<"verify", "US", 1>>, <<"get", "UK", 1>>, <<"head", "Canada", 1>>},
     resp |-> ExcResp],
    [reqs |-> {<<"head", "Germany", 1>>, <<"head", "Germany", 2>>, <<"head", "Germany", 4>>,
               <<"get", "Germany", 1>>, <<"get", "Germany", 2>>,
               <<"verify", "France", 1>>, <<"verify", "France", 2>>, <<"verify", "UK", 2>>},
     resp |-> StatusResp(503)] }

VARIABLES
  pc,             \* where the call of select_best_sites stands
  brand_name,     \* its argument
  max_sites,      \* its argument
  hosts,          \* environment: the brand hosts that are up
  page,           \* environment: the links the search result page holds
  hashOrder,      \* environment: the order a set of links is listed in
  failing,        \* environment: the requests that fail transiently
  ri,             \* search_brand_globally: index of the next region
  brand_sites,    \* search_brand_globally: region -> sites, in insertion order
  si,             \* select_best_sites: index of the next entry of all_sites
  selected_sites, \* select_best_sites: region -> sites, in insertion order
  raised,         \* an exception left select_best_sites
  okHeads,        \* history: <<region, URL>> that answered a HEAD with a status < 400
  classified,     \* history: every site_info _search_region built
  searchLog,      \* history: per searched region, how its URLs were found
  verifyLog,      \* history: per verified region, the answer of each check
  apc,             \* where the call of aggregate_product_prices stands
  product_name,    \* its argument
  sites_by_region, \* its argument: region -> site entries, in insertion order
  shop,            \* environment: per site, the answers to its four search URLs
  gi,              \* index of the region the outer loop is at
  gs,              \* index of the site the inner loop is at
  region_prices,   \* region_prices of the current region
  aggregated,      \* aggregated: region -> price entries, in insertion order
  foundLog,        \* history: what search_products returned, per region and site
  epc,             \* where the call of _extract_products_from_page stands
  markup,          \* the cards of the page it is given
  limit,           \* its argument
  page_products,   \* what _extract_products_from_page returned
  price_products,  \* what _extract_by_prices returned for the same page
  epath,           \* history: whether the selectors or the price scan gave page_products
  tpc,             \* where the call of get_top_products stands
  site_pages,      \* environment: what the site answers to a GET of each of its paths
  top_limit,       \* the argument limit of get_top_products
  query,           \* the argument search_query of search_products
  strategies,      \* the list strategies: name and products of each, in order
  requests,        \* history: the GETs issued, in order, each with its strategy
  top_products,    \* what get_top_products returned
  search_products, \* what search_products returned
  dpc,             \* where the best-deal selection stands
  row,             \* the price of one product per region, NaN where present is FALSE
  min_region,      \* what calculate_best_deal returned
  cheapest,        \* the entry 'cheapest' of get_price_comparison
  best_entry,      \* best_entry of app.py
  returned,        \* history: brand, max_sites and result of the earlier calls of select_best_sites
  cpc,             \* where the call of _calculate_discount stands
  original,        \* its argument original
  current,         \* its argument current
  discount,        \* what it returned
  kpc,             \* where the use of the cache stands
  now,             \* the clock, in seconds
  waited,          \* history: how many times time went by
  cache_file,      \* the cache file: whether it exists, its timestamp and its duration
  cached,          \* what get_cached_results returned
  mpc,             \* where the call of calculate_price_markup stands
  product_prices,  \* product['prices']: region and price, in insertion order
  markups,         \* what it returned: region and markup, in insertion order
  markup_raised,   \* an exception left it
  rpc,             \* where the call of scrape_brand_regional stands
  brand_sites_cfg, \* self.brand_sites: brand -> the regions configured for it
  region_pages,    \* environment: what the GET of each regional site answers
  scraped_brand,   \* its argument brand_name
  requested,       \* its argument regions
  rx,              \* index of the next requested region
  all_products,    \* all_products: one entry per lower-cased name, in insertion order
  regional         \* what it returned

selVars == << pc, brand_name, max_sites, hosts, page, hashOrder, failing, ri, brand_sites, si,
              selected_sites, raised, okHeads, classified, searchLog, verifyLog >>

aggVars == << apc, product_name, sites_by_region, shop, gi, gs, region_prices,
              aggregated, foundLog >>

pageVars == << epc, markup, limit, page_products, price_products, epath >>

topVars == << tpc, site_pages, top_limit, query, strategies, requests, top_products,
             search_products >>

dealVars == << dpc, row, min_region, cheapest, best_entry >>

discVars == << cpc, original, current, discount >>
cacheVars == << kpc, now, waited, cache_file, cached >>
markVars == << mpc, product_prices, markups, markup_raised >>
regVars == << rpc, brand_sites_cfg, region_pages, scraped_brand, requested, rx, all_products, regional >>
utilVars == << discVars, cacheVars, markVars, regVars >>

oldVars == << selVars, returned, aggVars, pageVars, topVars, dealVars >>
vars == << oldVars, utilVars >>

otherVars == << aggVars, pageVars, topVars, dealVars, utilVars >>
notSelVars == << otherVars, returned >>
notAggVars == << utilVars, returned, selVars, pageVars, topVars, dealVars >>
notPageVars == << utilVars, returned, selVars, aggVars, topVars, dealVars >>
notTopVars == << utilVars, returned, selVars, aggVars, pageVars, dealVars >>
notDealVars == << utilVars, returned, selVars, aggVars, pageVars, topVars >>

env == << hosts, page, hashOrder, failing >>

Brands == { <<"j","d">>, <<"N","i","k","e">>, <<"K"," ","S","w","i","s","s">> }

\* the answer to a request of the call
Answer(req, world_resp) == IF req \in failing.reqs THEN failing.resp ELSE world_resp

HashOrderTexts == [i \in 1..Len(hashOrder) |-> LinkText(hashOrder[i], brand_name)]

AggIdle ==
  /\ apc = "off"
  /\ product_name = <<>>
  /\ sites_by_region = <<>>
  /\ shop = <<>>
  /\ gi = 1
  /\ gs = 1
  /\ region_prices = <<>>
  /\ aggregated = <<>>
  /\ foundLog = <<>>

SelInit ==
  /\ pc = "idle"
  /\ returned = <<>>
  /\ brand_name = <<>>
  /\ max_sites = 0
  /\ hosts \in HostWorlds
  /\ page \in Pages
  /\ hashOrder \in HashOrders
  /\ failing \in FailurePatterns
  /\ ri = 1
  /\ brand_sites = <<>>
  /\ si = 1
  /\ selected_sites = <<>>
  /\ raised = FALSE
  /\ okHeads = {}
  /\ classified = {}
  /\ searchLog = <<>>
  /\ verifyLog = <<>>

PageIdle ==
  /\ epc = "off"
  /\ markup = <<>>
  /\ limit = 0
  /\ page_products = <<>>
  /\ price_products = <<>>
  /\ epath = "none"

TopIdle ==
  /\ tpc = "off"
  /\ site_pages = {}
  /\ top_limit = 0
  /\ query = <<>>
  /\ strategies = <<>>
  /\ requests = <<>>
  /\ top_products = <<>>
  /\ search_products = <<>>

DealIdle ==
  /\ dpc = "off"
  /\ row = <<>>
  /\ min_region = "None"
  /\ cheapest = [region |-> "None", price |-> 0]
  /\ best_entry = [region |-> "None", text |-> <<>>, price |-> 0]

DiscIdle ==
  /\ cpc = "off"
  /\ original = [kind |-> "none"]
  /\ current = [kind |-> "none"]
  /\ discount = <<>>

CacheIdle ==
  /\ kpc = "off"
  /\ now = 0
  /\ waited = 0
  /\ cache_file = [exists |-> FALSE, timestamp |-> 0, duration |-> 0]
  /\ cached = "None"

MarkIdle ==
  /\ mpc = "off"
  /\ product_prices = <<>>
  /\ markups = <<>>
  /\ markup_raised = FALSE

RegIdle ==
  /\ rpc = "off"
  /\ brand_sites_cfg = <<>>
  /\ region_pages = <<>>
  /\ scraped_brand = "None"
  /\ requested = <<>>
  /\ rx = 1
  /\ all_products = <<>>
  /\ regional = <<>>

UtilIdle == DiscIdle /\ CacheIdle /\ MarkIdle /\ RegIdle

Init == SelInit /\ AggIdle /\ PageIdle /\ TopIdle /\ DealIdle /\ UtilIdle

\* SmartSiteSelector.select_best_sites is called
Call ==
  /\ UNCHANGED notSelVars
  /\ pc = "idle"
  /\ \E b \in Brands, m \in 0..MaxSitesArg :
       /\ brand_name' = b
       /\ max_sites' = m
  /\ pc' = "search"
  /\ UNCHANGED << env, ri, brand_sites, si, selected_sites, raised,
                  okHeads, classified, searchLog, verifyLog >>

\* one iteration of the loop of search_brand_globally: _search_region of the
\* next region and the test of its result
SearchRegion ==
  /\ UNCHANGED notSelVars
  /\ pc = "search"
  /\ ri <= Len(RegionOrder)
  /\ \E region_code \in {RegionOrder[ri]} :
     \E pats \in {DomainPatterns(brand_name, regions[region_code])},
        order \in {HashOrderTexts},
        get1 \in {Answer(<<"get", region_code, 1>>, WorldSearch(page, brand_name))},
        get2 \in {Answer(<<"get", region_code, 2>>, WorldSearch(page, brand_name))} :
     \E head_resps \in {[i \in 1..Len(pats) |->
                           Answer(<<"head", region_code, i>>, WorldHead(pats[i], brand_name, hosts))]} :
     \E direct \in {TryDirectDomains(brand_name, regions[region_code], head_resps)},
        urls1 \in {GoogleSearch(get1, order)},
        urls2 \in {GoogleSearch(get2, order)} :
     \E direct_urls \in {DirectUrls(direct, urls1, urls2, order)} :
     \E sites \in {Categorize(direct_urls, brand_name, region_code)} :
         /\ brand_sites' = IF sites # <<>>
                           THEN Append(brand_sites, [region |-> region_code, sites |-> sites])
                           ELSE brand_sites
         /\ okHeads' = okHeads \cup
              {<<region_code, pats[i]>> : i \in {j \in 1..Len(pats) : HeadOk(head_resps[j])}}
         /\ classified' = classified \cup
              { SiteInfo(direct_urls[i], brand_name, region_code)
                  : i \in {j \in 1..Len(direct_urls) : Len(direct_urls[j]) >= 5} }
         /\ searchLog' = Append(searchLog,
              [region |-> region_code,
               via    |-> IF direct # <<>> THEN "direct" ELSE "search",
               heads  |-> Len(pats),
               gets   |-> SearchRequests(direct, urls1),
               probed |-> pats,
               reachable |-> {j \in 1..Len(pats) : HeadOk(head_resps[j])},
               found1 |-> HttpLinks(get1) # {},
               found2 |-> HttpLinks(get2) # {},
               result |-> sites])
  /\ ri' = ri + 1
  /\ UNCHANGED << pc, brand_name, max_sites, env, si, selected_sites, raised, verifyLog >>

\* search_brand_globally returns and the loop of select_best_sites begins
SearchReturn ==
  /\ UNCHANGED notSelVars
  /\ pc = "search"
  /\ ri > Len(RegionOrder)
  /\ pc' = "select"
  /\ UNCHANGED << brand_name, max_sites, env, ri, brand_sites, si,
                  selected_sites, raised, okHeads, classified, searchLog, verifyLog >>

\* one iteration of the loop of select_best_sites
VerifyRegion ==
  /\ UNCHANGED notSelVars
  /\ pc = "select"
  /\ si <= Len(brand_sites)
  /\ \E region \in {brand_sites[si].region}, sites \in {brand_sites[si].sites} :
     \E resps \in {[i \in 1..Len(sites) |->
                      Answer(<<"verify", region, i>>, WorldHead(sites[i].url, brand_name, hosts))]} :
     \E res \in {[i \in 1..Len(sites) |-> VerifySiteAccessibility(resps[i])]} :
         IF \E i \in 1..Len(sites) : res[i].raised
         THEN /\ raised' = TRUE
              /\ pc' = "raised"
              /\ UNCHANGED << si, selected_sites, okHeads, verifyLog >>
         ELSE /\ selected_sites' = Append(selected_sites,
                    [region |-> region,
                     sites  |-> SelectRegion(sites, [i \in 1..Len(sites) |-> res[i].value], max_sites)])
              /\ okHeads' = okHeads \cup
                    {<<region, sites[i].url>> : i \in {j \in 1..Len(sites) : HeadOk(resps[j])}}
              /\ verifyLog' = Append(verifyLog,
                    [region |-> region, oks |-> [i \in 1..Len(sites) |-> HeadOk(resps[i])]])
              /\ si' = si + 1
              /\ UNCHANGED << pc, raised >>
  /\ UNCHANGED << brand_name, max_sites, env, ri, brand_sites, classified, searchLog >>

\* select_best_sites returns selected_sites
SelectReturn ==
  /\ UNCHANGED notSelVars
  /\ pc = "select"
  /\ si > Len(brand_sites)
  /\ pc' = "done"
  /\ UNCHANGED << brand_name, max_sites, env, ri, brand_sites, si,
                  selected_sites, raised, okHeads, classified, searchLog, verifyLog >>

Next == Call \/ SearchRegion \/ SearchReturn \/ VerifyRegion \/ SelectReturn

Spec == Init /\ [][Next]_vars

\* ------------------------------------------- the aggregator's environment

\* the elements each of the seven selectors matches, and the elements holding a price
PgA == [selected |-> << << El(<<"R","e","d"," ","T","e","e">>, 9800, {"dollar_sign"}),
                           El(<<"B","l","u","e"," ","T","E","E">>, 8200, {"dollar_sign"}),
                           El(<<"S","u","n"," ","H","a","t">>, 2000, {"euro_sign"}) >>,
                        <<>>, <<>>, <<>>, <<>>, <<>>, <<>> >>,
        priced   |-> <<>>]
PgB == [selected |-> << << El(<<"T","e","e"," ","O","n","e">>, 0, {}),
                           El(<<"T","e","e"," ","T","w","o">>, 1500, {"pound_sign"}),
                           El(<<"C","a","p">>, 0, {}) >>,
                        <<>>, <<>>,
                        << El(<<"r","e","d"," ","t","e","e"," ","s","l","i","m">>, 4000, {}),
                           El(<<"O","l","d"," ","H","a","t">>, 900, {"GBP"}),
                           El(<<"B","e","l","t">>, 0, {}) >>,
                        <<>>, <<>>, <<>> >>,
        priced   |-> <<>>]
PgC == [selected |-> << <<El(<<"T","e","e"," ","S","o","l","o">>, 100, {})>>, <<>>, <<>>, <<>>, <<>>, <<>>, <<>> >>,
        priced   |-> << Pr(<<"T","e","e"," ","C","l","a","s","s","i","c">>, 5000, "dollar_sign"),
                        Pr(<<"t","e","e"," ","c","l","a","s","s","i","c">>, 5000, "dollar_sign"),
                        Pr(<<"H","a","t">>, 3000, "dollar_sign"),
                        Pr(<<"G","r","e","e","n"," ","T","e","e">>, 0, "euro_sign"),
                        Pr(<<"T","e","e"," ","M","a","x"," ","X","L">>, 7000, "pound_sign") >>]
PgD == [selected |-> << <<>>, <<>>, <<>>, <<>>, <<>>, <<>>, <<>> >>, priced |-> <<>>]
PgE == [selected |-> << <<>>,
                        << El(<<"S","u","n"," ","H","a","t">>, 2000, {}), El(<<"R","a","i","n"," ","H","a","t">>, 2500, {}),
                           El(<<"T","o","p"," ","H","a","t">>, 9900, {}) >>,
                        <<>>, <<>>, <<>>, <<>>, <<>> >>,
        priced   |-> <<>>]

PageResp(pg) == [kind |-> "resp", status |-> 200, page |-> pg]

\* the answers one site may give to its four search URLs
ShopAnswers ==
  { << ExcResp, StatusResp(404), PageResp(PgA), PageResp(PgC) >>,
    << PageResp(PgE), PageResp(PgD), PageResp(PgB), ExcResp >>,
    << PageResp(PgC), PageResp(PgA), PageResp(PgA), PageResp(PgA) >>,
    << ExcResp, ExcResp, StatusResp(503), StatusResp(404) >> }

SiteA == <<"h","t","t","p","s",":","/","/","a",".","c","o","m","/">>
SiteB == <<"h","t","t","p","s",":","/","/","b",".","d","e">>
SiteC == <<"h","t","t","p","s",":","/","/","c",".","u","k">>
ShopSites == {SiteA, SiteB, SiteC}

DictSite(url) == [kind |-> "dict", url |-> url]
StrSite(url) == [kind |-> "str", value |-> url]

\* the sites_by_region arguments tried
SiteInputs ==
  { << [region |-> "US", sites |-> <<DictSite(SiteA), DictSite(SiteB)>>],
       [region |-> "UK", sites |-> <<StrSite(SiteC)>>] >>,
    << [region |-> "US", sites |-> <<DictSite(SiteA)>>],
       [region |-> "UK", sites |-> <<>>],
       [region |-> "Germany", sites |-> <<StrSite(SiteB), DictSite(SiteC)>>] >> }

ProductNames == { <<"t","e","e">>, <<"R","e","d"," ","T","e","e">> }

\* the answer to a GET of url
Fetch(url) ==
  IF \E s \in ShopSites, k \in 1..4 : SearchUrls(s, product_name)[k] = url
  THEN LET s == CHOOSE s \in ShopSites : \E k \in 1..4 : SearchUrls(s, product_name)[k] = url
           k == CHOOSE k \in 1..4 : SearchUrls(s, product_name)[k] = url
       IN  shop[s][k]
  ELSE ExcResp

SelIdle ==
  /\ returned = <<>>
  /\ pc = "off"
  /\ brand_name = <<>>
  /\ max_sites = 0
  /\ hosts = {}
  /\ page = <<>>
  /\ hashOrder = <<>>
  /\ failing = [reqs |-> {}, resp |-> ExcResp]
  /\ ri = 1
  /\ brand_sites = <<>>
  /\ si = 1
  /\ selected_sites = <<>>
  /\ raised = FALSE
  /\ okHeads = {}
  /\ classified = {}
  /\ searchLog = <<>>
  /\ verifyLog = <<>>

AggInit ==
  /\ SelIdle
  /\ PageIdle
  /\ TopIdle
  /\ DealIdle
  /\ UtilIdle
  /\ apc = "idle"
  /\ product_name = <<>>
  /\ sites_by_region = <<>>
  /\ shop \in [ShopSites -> ShopAnswers]
  /\ gi = 1
  /\ gs = 1
  /\ region_prices = <<>>
  /\ aggregated = <<>>
  /\ foundLog = <<>>

\* ProductAggregator.aggregate_product_prices is called
AggCall ==
  /\ UNCHANGED notAggVars
  /\ apc = "idle"
  /\ \E name \in ProductNames, input \in SiteInputs :
       /\ product_name' = name
       /\ sites_by_region' = input
  /\ apc' = "run"
  /\ UNCHANGED << shop, gi, gs, region_prices, aggregated, foundLog >>

\* one iteration of the inner loop: search_products on the next site of the region
AggSite ==
  /\ UNCHANGED notAggVars
  /\ apc = "run"
  /\ gi <= Len(sites_by_region)
  /\ gs <= Len(sites_by_region[gi].sites)
  /\ \E region \in {sites_by_region[gi].region},
        site_url \in {SiteUrlOf(sites_by_region[gi].sites[gs])} :
     \E urls \in {SearchUrls(site_url, product_name)} :
     \E resps \in {[k \in 1..Len(urls) |-> Fetch(urls[k])]} :
     \E products \in {SearchProducts(site_url, product_name, resps)} :
       /\ region_prices' = region_prices \o PriceEntries(products, site_url)
       /\ foundLog' = Append(foundLog, [region |-> region, site |-> site_url, products |-> products])
  /\ gs' = gs + 1
  /\ UNCHANGED << apc, product_name, sites_by_region, shop, gi, aggregated >>

\* the end of one iteration of the outer loop: the region's prices are stored
AggRegionEnd ==
  /\ UNCHANGED notAggVars
  /\ apc = "run"
  /\ gi <= Len(sites_by_region)
  /\ gs > Len(sites_by_region[gi].sites)
  /\ aggregated' = StoreRegion(aggregated, sites_by_region[gi].region, region_prices)
  /\ region_prices' = <<>>
  /\ gi' = gi + 1
  /\ gs' = 1
  /\ UNCHANGED << apc, product_name, sites_by_region, shop, foundLog >>

\* aggregate_product_prices returns aggregated
AggReturn ==
  /\ UNCHANGED notAggVars
  /\ apc = "run"
  /\ gi > Len(sites_by_region)
  /\ apc' = "done"
  /\ UNCHANGED << product_name, sites_by_region, shop, gi, gs, region_prices,
                  aggregated, foundLog >>

AggNext == AggCall \/ AggSite \/ AggRegionEnd \/ AggReturn

SpecAgg == AggInit /\ [][AggNext]_vars

\* ------------------------------------------------- the pages extracted from
MaxCards == 5

\* the limit arguments tried
Limits == {3, 5, 10}

\* how a card is marked up: container tag and class, price holder and its class
Shapes ==
  { [tag |-> "div", cls |-> <<"p","r","o","d","u","c","t","-","c","a","r","d">>, holder |-> "span", hcls |-> <<"p","r","i","c","e">>],
    [tag |-> "div", cls |-> <<"c","a","r","d">>, holder |-> "none", hcls |-> <<>>],
    [tag |-> "div", cls |-> <<"c","a","r","d">>, holder |-> "span", hcls |-> <<"p","r","i","c","e">>],
    [tag |-> "div", cls |-> <<"p","r","o","d","u","c","t","-","c","a","r","d">>, holder |-> "div", hcls |-> <<"p","r","o","d","u","c","t","-","p","r","i","c","e">>],
    [tag |-> "article", cls |-> <<"i","t","e","m">>, holder |-> "p", hcls |-> <<>>],
    [tag |-> "li", cls |-> <<"i","t","e","m">>, holder |-> "none", hcls |-> <<>>],
    [tag |-> "div", cls |-> <<"p","r","o","d","u","c","t","-","c","a","r","d">>, holder |-> "div", hcls |-> <<"i","t","e","m","-","p","r","i","c","e">>] }

TitleKinds == {"distinct", "identical", "case", "short", "none"}
PriceKinds == {"usd", "same", "bad", "first", "mixed", "token", "eurgbp"}

\* the title of the i-th card
TitleOf(kind, i) ==
  LET distinct == <<"W","i","d","g","e","t"," ">> \o <<UpperChars[i]>>
  IN  CASE kind = "distinct"  -> distinct
        [] kind = "identical" -> <<"W","i","d","g","e","t"," ","A">>
        [] kind = "case"      -> IF i % 2 = 1 THEN <<"W","i","d","g","e","t"," ","A">> ELSE <<"W","I","D","G","E","T"," ","a">>
        [] kind = "short"     -> IF i = 2 THEN <<"S","o","c","k">> ELSE distinct
        [] kind = "none"      -> IF i = 1 THEN <<>> ELSE distinct

\* the price text of the i-th card
PriceTextOf(kind, i) ==
  LET usd == <<"dollar_sign", DigitChars[i + 1]>> \o <<"0",".","0","0">>
  IN  CASE kind = "usd"     -> usd
        [] kind = "same"    -> <<"dollar_sign">> \o <<"1","0",".","0","0">>
        [] kind = "bad"     -> IF i = 1 THEN <<"dollar_sign", ",">>
                               ELSE IF i = 3 THEN <<"dollar_sign">> \o <<"0",".","0","0">> ELSE usd
        [] kind = "first"   -> IF i = 1 THEN <<"dollar_sign", ",">> ELSE usd
        [] kind = "mixed"   -> <<"pound_sign", DigitChars[i + 1]>> \o <<"0",".","0","0"," ","o","r"," ">>
                                 \o <<"euro_sign", DigitChars[i + 1]>> \o <<"3">>
        [] kind = "token"   -> <<DigitChars[i + 1]>> \o <<"5"," ","e","u","r">>
        [] kind = "eurgbp"  -> <<"euro_sign", DigitChars[i + 1]>> \o <<"5",".","0","0"," ","G","B","P">>

CardOf(shape, tkind, pkind, i) ==
  Card(shape.tag, shape.cls, TitleOf(tkind, i),
       IF shape.holder = "none" THEN PriceTextOf(pkind, i) ELSE <<>>,
       shape.holder, shape.hcls,
       IF shape.holder = "none" THEN <<>> ELSE PriceTextOf(pkind, i))

\* the pages tried: up to MaxCards cards of one shape
Markups ==
  { [i \in 1..n |-> CardOf(shape, tkind, pkind, i)] :
      n \in 1..MaxCards, shape \in Shapes, tkind \in TitleKinds, pkind \in PriceKinds }

PageInit ==
  /\ SelIdle
  /\ AggIdle
  /\ TopIdle
  /\ DealIdle
  /\ UtilIdle
  /\ epc = "idle"
  /\ markup = <<>>
  /\ limit = 0
  /\ page_products = <<>>
  /\ price_products = <<>>
  /\ epath = "none"

\* _extract_products_from_page is called on a page
PageCall ==
  /\ UNCHANGED notPageVars
  /\ epc = "idle"
  /\ \E m \in Markups, l \in Limits :
       /\ markup' = m
       /\ limit' = l
  /\ epc' = "called"
  /\ UNCHANGED << page_products, price_products, epath >>

\* _extract_products_from_page returns
PageExtract ==
  /\ UNCHANGED notPageVars
  /\ epc = "called"
  /\ \E pg \in {PageOf(markup)} :
       /\ page_products' = ExtractProductsFromPage(pg, SiteA, limit)
       /\ epath' = IF ScanSelectors(pg.selected, 1, <<>>, SiteA, limit).products # <<>>
                   THEN "selectors" ELSE "prices"
  /\ epc' = "extracted"
  /\ UNCHANGED << markup, limit, price_products >>

\* _extract_by_prices is applied to the same page
PriceExtract ==
  /\ UNCHANGED notPageVars
  /\ epc = "extracted"
  /\ price_products' = ExtractByPrices(PageOf(markup).priced, SiteA, limit)
  /\ epc' = "done"
  /\ UNCHANGED << markup, limit, page_products, epath >>

PageNext == PageCall \/ PageExtract \/ PriceExtract

SpecPage == PageInit /\ [][PageNext]_vars

\* ---------------------------------------------------- the sites listed
Link(href, text) == [href |-> href, text |-> text]

\* a page with the links a home page holds
WithLinks(pg, links) == [selected |-> pg.selected, priced |-> pg.priced, links |-> links]

HomeLinks ==
  << Link(<<"/","a","b","o","u","t">>, <<"A","b","o","u","t">>),
     Link(<<"/","c","a","t","e","g","o","r","y","/","h","a","t","s">>, <<"H","a","t","s">>),
     Link(<<"/","W","o","m","e","n">>, <<"W","o","m","e","n">>),
     Link(<<"/","c","o","l","l","e","c","t","i","o","n","/","n","e","w">>, <<"o","k">>),
     Link(<<"h","t","t","p","s",":","/","/","a",".","c","o","m","/","p","r","o","d","u","c","t","s","/","s","a","l","e">>, <<"S","a","l","e"," ","n","o","w">>),
     Link(<<"m","e","n","/","t","e","e","s">>, <<"T","e","e","s"," ","f","o","r"," ","m","e","n">>) >>

\* what a site answers, path by path; any other path answers 404
Sites ==
  { { <<<<"/","s","e","a","r","c","h","?","q","=","a","l","l">>, PageResp(PgA)>>, <<<<"/","s","h","o","p">>, PageResp(PgE)>>,
      <<<<>>, PageResp(WithLinks(PgD, HomeLinks))>>, <<<<"/","c","a","t","e","g","o","r","y","/","h","a","t","s">>, PageResp(PgE)>>,
      <<<<"/","c","o","l","l","e","c","t","i","o","n","s","/","p","r","o","d","u","c","t","s">>, PageResp(PgB)>>, <<<<"/","s","e","a","r","c","h","?","q","=","t","e","e">>, PageResp(PgA)>> },
    { <<<<"/","s","e","a","r","c","h","?","q","=","a","l","l">>, ExcResp>>, <<<<"/","s","e","a","r","c","h","?","q","u","e","r","y","=","a","l","l">>, StatusResp(404)>>,
      <<<<"/","p","r","o","d","u","c","t","s","?","s","e","a","r","c","h","=","a","l","l">>, PageResp(PgC)>>, <<<<"/","s","h","o","p","?","s","e","a","r","c","h","=","a","l","l">>, StatusResp(503)>>,
      <<<<"/","c","o","l","l","e","c","t","i","o","n","s","/","a","l","l">>, ExcResp>>, <<<<"/","p","r","o","d","u","c","t","s">>, PageResp(PgD)>>,
      <<<<"/","s","h","o","p">>, ExcResp>>, <<<<"/","c","a","t","a","l","o","g">>, PageResp(PgB)>>,
      <<<<>>, ExcResp>>, <<<<"/","s","e","a","r","c","h","?","q","=","t","e","e">>, ExcResp>>,
      <<<<"/","s","e","a","r","c","h","?","q","u","e","r","y","=","t","e","e">>, PageResp(PgC)>> },
    { <<<<"/","s","e","a","r","c","h","?","q","=","a","l","l">>, PageResp(PgD)>>, <<<<"/","p","r","o","d","u","c","t","s">>, PageResp(PgC)>>,
      <<<<"/","s","t","o","r","e">>, StatusResp(500)>>, <<<<>>, PageResp(WithLinks(PgC, <<>>))>>,
      <<<<"/","s","e","a","r","c","h","?","q","=","t","e","e">>, StatusResp(503)>>, <<<<"/","s","h","o","p","?","s","e","a","r","c","h","=","t","e","e">>, PageResp(PgB)>> },
    { <<<<>>, PageResp(WithLinks(PgC, HomeLinks))>>, <<<<"/","c","a","t","e","g","o","r","y","/","h","a","t","s">>, ExcResp>>,
      <<<<"/","W","o","m","e","n">>, StatusResp(403)>>, <<<<"/","p","r","o","d","u","c","t","s","/","s","a","l","e">>, PageResp(PgA)>>,
      <<<<"/","c","o","l","l","e","c","t","i","o","n","s","/","a","l","l">>, PageResp(PgC)>>, <<<<"/","c","o","l","l","e","c","t","i","o","n","s","/","p","r","o","d","u","c","t","s">>, PageResp(PgA)>> },
    { <<<<"/","c","o","l","l","e","c","t","i","o","n","s","/","a","l","l">>, ExcResp>>, <<<<"/","c","o","l","l","e","c","t","i","o","n","s","/","p","r","o","d","u","c","t","s">>, PageResp(PgE)>>,
      <<<<>>, StatusResp(500)>> },
    { <<<<"/","s","e","a","r","c","h","?","q","=","a","l","l">>, ExcResp>>, <<<<"/","s","e","a","r","c","h","?","q","u","e","r","y","=","a","l","l">>, ExcResp>>,
      <<<<"/","p","r","o","d","u","c","t","s","?","s","e","a","r","c","h","=","a","l","l">>, ExcResp>>, <<<<"/","s","h","o","p","?","s","e","a","r","c","h","=","a","l","l">>, ExcResp>>,
      <<<<"/","c","o","l","l","e","c","t","i","o","n","s","/","a","l","l">>, ExcResp>>, <<<<"/","p","r","o","d","u","c","t","s">>, ExcResp>>, <<<<"/","s","h","o","p">>, ExcResp>>,
      <<<<"/","c","a","t","a","l","o","g">>, ExcResp>>, <<<<"/","s","t","o","r","e">>, ExcResp>>, <<<<>>, ExcResp>>,
      <<<<"/","c","o","l","l","e","c","t","i","o","n","s","/","p","r","o","d","u","c","t","s">>, ExcResp>>, <<<<"/","s","e","a","r","c","h","?","q","=","t","e","e">>, ExcResp>>,
      <<<<"/","s","e","a","r","c","h","?","q","u","e","r","y","=","t","e","e">>, ExcResp>>, <<<<"/","p","r","o","d","u","c","t","s","?","s","e","a","r","c","h","=","t","e","e">>, ExcResp>>,
      <<<<"/","s","h","o","p","?","s","e","a","r","c","h","=","t","e","e">>, ExcResp>> } }

\* the limit arguments tried
TopLimits == {2, 3, 5, 10}

\* the answer of the site to a GET of url
TopFetch(url) ==
  LET hit == {e \in site_pages : RStripSlash(SiteA) \o e[1] = url}
  IN  IF hit = {} THEN StatusResp(404) ELSE (CHOOSE e \in hit : TRUE)[2]

Failed(resp) == resp.kind = "exc" \/ resp.status # 200

\* the entries of the history for the first n URLs of a strategy
Issued(name, urls, n) ==
  [i \in 1..n |-> [strategy |-> name, url |-> urls[i], failed |-> Failed(TopFetch(urls[i]))]]

TopInit ==
  /\ SelIdle
  /\ AggIdle
  /\ PageIdle
  /\ DealIdle
  /\ UtilIdle
  /\ tpc = "idle"
  /\ site_pages \in Sites
  /\ top_limit = 0
  /\ query = <<>>
  /\ strategies = <<>>
  /\ requests = <<>>
  /\ top_products = <<>>
  /\ search_products = <<>>

\* get_top_products is called
TopCall ==
  /\ UNCHANGED notTopVars
  /\ tpc = "idle"
  /\ \E l \in TopLimits : top_limit' = l
  /\ tpc' = "search_all"
  /\ UNCHANGED << site_pages, query, strategies, requests, top_products, search_products >>

\* _search_products_on_site(site_url, "all", limit), first entry of strategies
TopSearchAll ==
  /\ UNCHANGED notTopVars
  /\ tpc = "search_all"
  /\ \E urls \in {SearchPatterns(SiteA, <<"a","l","l">>)} :
     \E run \in {ScrapeUrls([i \in 1..Len(urls) |-> TopFetch(urls[i])], 1, <<>>, SiteA, top_limit)} :
       /\ strategies' = Append(strategies, [name |-> "search_all", products |-> run.products])
       /\ requests' = requests \o Issued("search_all", urls, run.fetched)
  /\ tpc' = "shop_page"
  /\ UNCHANGED << site_pages, top_limit, query, top_products, search_products >>

\* _scrape_shop_page(site_url, limit), second entry
TopShopPage ==
  /\ UNCHANGED notTopVars
  /\ tpc = "shop_page"
  /\ \E urls \in {ShopUrls(SiteA)} :
     \E run \in {ScrapeUrls([i \in 1..Len(urls) |-> TopFetch(urls[i])], 1, <<>>, SiteA, top_limit)} :
       /\ strategies' = Append(strategies, [name |-> "shop_page", products |-> run.products])
       /\ requests' = requests \o Issued("shop_page", urls, run.fetched)
  /\ tpc' = "category_page"
  /\ UNCHANGED << site_pages, top_limit, query, top_products, search_products >>

\* _scrape_category_page(site_url, limit), third entry
TopCategoryPage ==
  /\ UNCHANGED notTopVars
  /\ tpc = "category_page"
  /\ \E base_url \in {RStripSlash(SiteA)} :
     \E home \in {TopFetch(base_url)} :
       IF Failed(home)
       THEN /\ strategies' = Append(strategies, [name |-> "category_page", products |-> <<>>])
            /\ requests' = requests \o Issued("category_page", <<base_url>>, 1)
       ELSE \E urls \in {CategoryLinks(home.page.links, SiteA)} :
            \E run \in {ScrapeUrls([i \in 1..Len(urls) |-> TopFetch(urls[i])], 1, <<>>,
                                   SiteA, top_limit)} :
              /\ strategies' = Append(strategies,
                                      [name |-> "category_page", products |-> run.products])
              /\ requests' = requests \o Issued("category_page", <<base_url>>, 1)
                               \o Issued("category_page", urls, run.fetched)
  /\ tpc' = "collections"
  /\ UNCHANGED << site_pages, top_limit, query, top_products, search_products >>

\* _scrape_collections_page(site_url, limit), fourth entry
TopCollections ==
  /\ UNCHANGED notTopVars
  /\ tpc = "collections"
  /\ \E urls \in {CollectionsUrls(SiteA)} :
     \E run \in {ScrapeUrls([i \in 1..Len(urls) |-> TopFetch(urls[i])], 1, <<>>, SiteA, top_limit)} :
       /\ strategies' = Append(strategies, [name |-> "collections", products |-> run.products])
       /\ requests' = requests \o Issued("collections", urls, run.fetched)
  /\ tpc' = "pick"
  /\ UNCHANGED << site_pages, top_limit, query, top_products, search_products >>

\* the loop of get_top_products over strategies, and its return
TopReturn ==
  /\ UNCHANGED notTopVars
  /\ tpc = "pick"
  /\ top_products' = TopPick(strategies, top_limit)
  /\ tpc' = "returned"
  /\ UNCHANGED << site_pages, top_limit, query, strategies, requests, search_products >>

\* search_products is called on the site and returns
TopSearchProducts ==
  /\ UNCHANGED notTopVars
  /\ tpc = "returned"
  /\ \E q \in ProductNames :
     \E urls \in {SearchUrls(SiteA, q)} :
     \E resps \in {[i \in 1..Len(urls) |-> TopFetch(urls[i])]} :
       /\ query' = q
       /\ search_products' = SearchProducts(SiteA, q, resps)
       /\ requests' = requests
            \o Issued("search_products", urls, SearchFetched(resps, 1, SiteA, q))
  /\ tpc' = "searched"
  /\ UNCHANGED << site_pages, top_limit, strategies, top_products >>

TopNext ==
  \/ TopCall \/ TopSearchAll \/ TopShopPage \/ TopCategoryPage \/ TopCollections
  \/ TopReturn \/ TopSearchProducts

SpecTop == TopInit /\ [][TopNext]_vars

\* the call of select_best_sites when every request it issues is answered (by
\* a response or by a failure), so that every step of it is taken in the end
SpecLive == Init /\ [][Next]_vars /\ WF_vars(Next)

\* ----------------------------------------- calls on one SmartSiteSelector
MaxCalls == 3

\* the environments in which an instance is called again
AgainInit ==
  /\ SelInit
  /\ hosts \in {{}, {<<<<"w","w","w",".">>, <<"c","o","m">>>>, <<<<>>, <<"c","o","m">>>>, <<<<>>, <<"d","e">>>>}}
  /\ page = <<"retailer", "retailer2", "short", "nohttp", "malformed">>
  /\ failing.reqs \in {{}, {<<"verify", "US", 1>>, <<"get", "UK", 1>>, <<"head", "Canada", 1>>}}
  /\ AggIdle /\ PageIdle /\ TopIdle /\ DealIdle /\ UtilIdle

\* select_best_sites is called again on the instance after it returned: the
\* instance keeps search_engine (regions, known_retailers, session) and
\* site_scores, which no method writes; the call makes its mappings and loops
\* anew
CallAgain ==
  /\ UNCHANGED otherVars
  /\ pc = "done"
  /\ Len(returned) + 1 < MaxCalls
  /\ returned' = Append(returned, [brand_name |-> brand_name, max_sites |-> max_sites,
                                    result |-> selected_sites])
  /\ \E b \in Brands : brand_name' = b
  /\ brand_sites' = FreshMappings(brand_sites, selected_sites).brand_sites
  /\ selected_sites' = FreshMappings(brand_sites, selected_sites).selected_sites
  /\ ri' = 1
  /\ si' = 1
  /\ okHeads' = {}
  /\ classified' = {}
  /\ searchLog' = <<>>
  /\ verifyLog' = <<>>
  /\ pc' = "search"
  /\ UNCHANGED << max_sites, env, raised >>

AgainNext == Call \/ SearchRegion \/ SearchReturn \/ VerifyRegion \/ SelectReturn \/ CallAgain

SpecAgain == AgainInit /\ [][AgainNext]_vars

\* ------------------------------------------------ the discounts computed
MaxPrice == 9

\* the values tried: None, NaN, zero and prices, among them 100 and 75
DiscValues ==
  {[kind |-> "none"], [kind |-> "nan"]}
    \cup {[kind |-> "num", value |-> n] : n \in (0..MaxPrice) \cup {75, 100}}

OldIdle == SelIdle /\ AggIdle /\ PageIdle /\ TopIdle /\ DealIdle

DiscInit ==
  /\ OldIdle
  /\ CacheIdle
  /\ MarkIdle
  /\ RegIdle
  /\ cpc = "idle"
  /\ original = [kind |-> "none"]
  /\ current = [kind |-> "none"]
  /\ discount = <<>>

\* DataProcessor._calculate_discount is called
DiscCall ==
  /\ UNCHANGED << oldVars, cacheVars, markVars, regVars >>
  /\ cpc = "idle"
  /\ \E o \in DiscValues, c \in DiscValues :
       /\ original' = o
       /\ current' = c
  /\ cpc' = "called"
  /\ UNCHANGED discount

\* it returns
DiscReturn ==
  /\ UNCHANGED << oldVars, cacheVars, markVars, regVars >>
  /\ cpc = "called"
  /\ discount' = CalculateDiscount(original, current)
  /\ cpc' = "done"
  /\ UNCHANGED << original, current >>

DiscNext == DiscCall \/ DiscReturn

SpecDisc == DiscInit /\ [][DiscNext]_vars

\* ------------------------------------------------------ the cache in use
MaxWaits == 4

\* the durations results are cached for, and the time spans that go by
Durations == {60, 3600}
Elapses == {59, 3601, SecondsPerDay}

CacheInit ==
  /\ OldIdle
  /\ DiscIdle
  /\ MarkIdle
  /\ RegIdle
  /\ kpc = "idle"
  /\ now = 0
  /\ waited = 0
  /\ cache_file = [exists |-> FALSE, timestamp |-> 0, duration |-> 0]
  /\ cached = "None"

\* cache_results(data, cache_file, duration) writes the file
CacheResults ==
  /\ UNCHANGED << oldVars, discVars, markVars, regVars >>
  /\ kpc = "idle"
  /\ \E d \in Durations :
       cache_file' = [exists |-> TRUE, timestamp |-> now, duration |-> d]
  /\ kpc' = "cached"
  /\ UNCHANGED << now, waited, cached >>

\* time goes by
Wait ==
  /\ UNCHANGED << oldVars, discVars, markVars, regVars >>
  /\ kpc = "cached"
  /\ waited < MaxWaits
  /\ \E dt \in Elapses : now' = now + dt
  /\ waited' = waited + 1
  /\ UNCHANGED << kpc, cache_file, cached >>

\* get_cached_results(cache_file)
GetCachedResults ==
  /\ UNCHANGED << oldVars, discVars, markVars, regVars >>
  /\ kpc = "cached"
  /\ IF ~cache_file.exists
     THEN cached' = "None" /\ UNCHANGED cache_file
     ELSE IF Expired(cache_file, now)
          THEN /\ cache_file' = [cache_file EXCEPT !.exists = FALSE]
               /\ cached' = "None"
          ELSE /\ cached' = "data"
               /\ UNCHANGED cache_file
  /\ kpc' = "read"
  /\ UNCHANGED << now, waited >>

CacheNext == CacheResults \/ Wait \/ GetCachedResults

SpecCache == CacheInit /\ [][CacheNext]_vars

\* ---------------------------------------------------- the markups computed
MaxRegions == 3

\* the prices tried, in cents: a price may be zero
MarkPrices == {0, 8200, 9800, 12000}

MarkInit ==
  /\ OldIdle
  /\ DiscIdle
  /\ CacheIdle
  /\ RegIdle
  /\ mpc = "idle"
  /\ product_prices = <<>>
  /\ markups = <<>>
  /\ markup_raised = FALSE

\* calculate_price_markup is called on a product
MarkCall ==
  /\ UNCHANGED << oldVars, discVars, cacheVars, regVars >>
  /\ mpc = "idle"
  /\ \E n \in 0..MaxRegions : \E ps \in [1..n -> MarkPrices] :
       product_prices' = [i \in 1..n |-> [region |-> RegionOrder[i], price |-> ps[i]]]
  /\ mpc' = "called"
  /\ UNCHANGED << markups, markup_raised >>

\* it returns or raises
MarkReturn ==
  /\ UNCHANGED << oldVars, discVars, cacheVars, regVars >>
  /\ mpc = "called"
  /\ markups' = CalculatePriceMarkup(product_prices).value
  /\ markup_raised' = CalculatePriceMarkup(product_prices).raised
  /\ mpc' = "done"
  /\ UNCHANGED product_prices

MarkNext == MarkCall \/ MarkReturn

SpecMark == MarkInit /\ [][MarkNext]_vars

\* ------------------------------------------------- the regions scraped
MaxRequested == 3

\* brand_sites.json as _load_brand_sites reads it: the regions of each brand
BrandSitesConfig ==
  << [brand |-> "Lululemon", regions |-> {"US", "UK", "UAE"}],
     [brand |-> "Nike", regions |-> {"US", "UK"}] >>

ScrapedBrands == {"Lululemon", "Nike", "Puma"}
RequestedRegions == {"US", "UK", "UAE", "Mars"}

Element(name, has_price, price, link) ==
  [name |-> name, has_price |-> has_price, price |-> price, link |-> link]

ElementsResp(elements) == [kind |-> "resp", status |-> 200, elements |-> elements]

\* a page of twelve products, one of two products and a nameless element, one
\* of the same product spelt in two cases, and one without elements
PageTwelve ==
  ElementsResp([i \in 1..12 |-> Element(<<"T","e","e"," ">> \o <<UpperChars[i]>>, TRUE, 1000 + i, <<"/","t">>)])
PageTwo ==
  ElementsResp(<< Element(<<"A","l","i","g","n"," ","P","a","n","t">>, TRUE, 9800, <<"/","a">>), Element(<<>>, TRUE, 100, <<"/","n">>),
                  Element(<<"T","e","e"," ","A">>, TRUE, 0, <<"/","t">>), Element(<<"T","e","e"," ","B">>, FALSE, 0, <<"/","u">>) >>)
PageCases ==
  ElementsResp(<< Element(<<"A","L","I","G","N"," ","P","A","N","T">>, TRUE, 8200, <<"/","b">>), Element(<<"A","l","i","g","n"," ","p","a","n","t">>, TRUE, 8300, <<"/","c">>) >>)

\* the answers of the regional sites: region -> answer
RegionWorlds ==
  { [r \in RequestedRegions |-> CASE r = "US" -> PageTwo [] r = "UK" -> PageCases
                                   [] r = "UAE" -> PageTwelve [] OTHER -> ExcResp],
    [r \in RequestedRegions |-> CASE r = "US" -> PageTwelve [] r = "UK" -> ExcResp
                                   [] r = "UAE" -> PageTwo [] OTHER -> ExcResp],
    [r \in RequestedRegions |-> CASE r = "US" -> [kind |-> "resp", status |-> 503, elements |-> <<>>]
                                   [] r = "UK" -> PageTwo
                                   [] r = "UAE" -> ElementsResp(<<>>) [] OTHER -> ExcResp] }

RegInit ==
  /\ OldIdle
  /\ DiscIdle
  /\ CacheIdle
  /\ MarkIdle
  /\ rpc = "idle"
  /\ brand_sites_cfg = BrandSitesConfig
  /\ region_pages \in RegionWorlds
  /\ scraped_brand = "None"
  /\ requested = <<>>
  /\ rx = 1
  /\ all_products = <<>>
  /\ regional = <<>>

\* the regions configured for a brand, {} for a brand that is not configured
ConfiguredRegions(brand) ==
  UNION { brand_sites_cfg[i].regions : i \in {j \in 1..Len(brand_sites_cfg) : brand_sites_cfg[j].brand = brand} }

BrandKnown(brand) == \E i \in 1..Len(brand_sites_cfg) : brand_sites_cfg[i].brand = brand

\* RegionalBrandScraper.scrape_brand_regional is called
RegCall ==
  /\ UNCHANGED << oldVars, discVars, cacheVars, markVars >>
  /\ rpc = "idle"
  /\ \E b \in ScrapedBrands, n \in 0..MaxRequested : \E rs \in [1..n -> RequestedRegions] :
       /\ scraped_brand' = b
       /\ requested' = rs
  /\ rpc' = "called"
  /\ UNCHANGED << brand_sites_cfg, region_pages, rx, all_products, regional >>

\* the brand is not in the configuration: the empty list is returned
RegUnknown ==
  /\ UNCHANGED << oldVars, discVars, cacheVars, markVars >>
  /\ rpc = "called"
  /\ ~BrandKnown(scraped_brand)
  /\ regional' = <<>>
  /\ rpc' = "done"
  /\ UNCHANGED << brand_sites_cfg, region_pages, scraped_brand, requested, rx, all_products >>

\* one iteration of the loop over the requested regions
RegRegion ==
  /\ UNCHANGED << oldVars, discVars, cacheVars, markVars >>
  /\ rpc = "called"
  /\ BrandKnown(scraped_brand)
  /\ rx <= Len(requested)
  /\ all_products' =
       IF requested[rx] \notin ConfiguredRegions(scraped_brand) THEN all_products
       ELSE MergeProducts(all_products,
                          ScrapeRegion(region_pages[requested[rx]], requested[rx]),
                          requested[rx])
  /\ rx' = rx + 1
  /\ UNCHANGED << rpc, brand_sites_cfg, region_pages, scraped_brand, requested, regional >>

\* the mapping is turned into the list returned
RegReturn ==
  /\ UNCHANGED << oldVars, discVars, cacheVars, markVars >>
  /\ rpc = "called"
  /\ BrandKnown(scraped_brand)
  /\ rx > Len(requested)
  /\ regional' = [i \in 1..Len(all_products) |->
                    [name |-> all_products[i].name, brand |-> scraped_brand,
                     prices |-> all_products[i].prices, links |-> all_products[i].links]]
  /\ rpc' = "done"
  /\ UNCHANGED << brand_sites_cfg, region_pages, scraped_brand, requested, rx, all_products >>

RegNext == RegCall \/ RegUnknown \/ RegRegion \/ RegReturn

SpecReg == RegInit /\ [][RegNext]_vars

\* ------------------------------------------------- the prices compared
MaxEntries == 3

\* the prices tried, in thousandths: 98.00, 82.00, 82.001 and 82.004
DealPrices == {98000, 82000, 82001, 82004}

\* the currencies of the entries tried, by their place in the row
DealCurrencies == <<"USD", "GBP", "EUR">>

\* the rows tried: the first regions of the registry, each with a price or NaN
Rows ==
  UNION { [1..n -> [price : DealPrices, present : BOOLEAN]] : n \in 0..MaxEntries }

RowOf(cells) ==
  [i \in 1..Len(cells) |->
     [region |-> RegionOrder[i], price |-> cells[i].price, present |-> cells[i].present,
      currency |-> DealCurrencies[((i - 1) % Len(DealCurrencies)) + 1]]]

DealInit ==
  /\ SelIdle
  /\ AggIdle
  /\ PageIdle
  /\ TopIdle
  /\ UtilIdle
  /\ dpc = "idle"
  /\ row = <<>>
  /\ min_region = "None"
  /\ cheapest = [region |-> "None", price |-> 0]
  /\ best_entry = [region |-> "None", text |-> <<>>, price |-> 0]

\* the prices of one product are at hand
DealCall ==
  /\ UNCHANGED notDealVars
  /\ dpc = "idle"
  /\ \E cells \in Rows : row' = RowOf(cells)
  /\ dpc' = "called"
  /\ UNCHANGED << min_region, cheapest, best_entry >>

\* PriceComparisonAnalyzer.calculate_best_deal on the product's prices
DealBest ==
  /\ UNCHANGED notDealVars
  /\ dpc = "called"
  /\ min_region' = CalculateBestDeal(SelectSeq(row, IsPresent))
  /\ dpc' = "best"
  /\ UNCHANGED << row, cheapest, best_entry >>

\* RegionalDataProcessor.get_price_comparison on the product's row
DealCompare ==
  /\ UNCHANGED notDealVars
  /\ dpc = "best"
  /\ cheapest' = PriceComparison(row)
  /\ dpc' = "compared"
  /\ UNCHANGED << row, min_region, best_entry >>

\* the comparison table of app.py and its best entry
DealTable ==
  /\ UNCHANGED notDealVars
  /\ dpc = "compared"
  /\ best_entry' = IF SelectSeq(row, IsPresent) = <<>> THEN best_entry
                   ELSE BestEntry(ComparisonData(SelectSeq(row, IsPresent)))
  /\ dpc' = "done"
  /\ UNCHANGED << row, min_region, cheapest >>

DealNext == DealCall \/ DealBest \/ DealCompare \/ DealTable

SpecDeal == DealInit /\ [][DealNext]_vars

\* ------------------------------------------------- claims on site selection
Via(region) == (CHOOSE k \in 1..Len(searchLog) : searchLog[k].region = region)

\* C1: every region's list returned by select_best_sites has at most max_sites
\* entries, and in it every official site stands before every retailer site.
C1_CappedOfficialFirst ==
  \A e \in 1..Len(selected_sites) :
    LET l == selected_sites[e].sites
    IN  /\ Len(l) <= max_sites
        /\ \A i, j \in 1..Len(l) :
             (l[i].type = "retailer" /\ l[j].type = "official") => j < i

\* C1 witness: the call returned a list holding an official site and a retailer,
\* and a list that the cap shortened.
C1_Witness ==
  /\ pc = "done"
  /\ \E e \in 1..Len(selected_sites) :
       \E i, j \in 1..Len(selected_sites[e].sites) :
          /\ selected_sites[e].sites[i].type = "official"
          /\ selected_sites[e].sites[j].type = "retailer"
  /\ \E e \in 1..Len(selected_sites) :
       /\ max_sites > 0
       /\ Len(selected_sites[e].sites) = max_sites
       /\ Cardinality({i \in 1..Len(verifyLog[e].oks) : verifyLog[e].oks[i]}) > max_sites

\* C2: the returned mapping never holds a region whose site list is empty.
C2_NoEmptyRegion ==
  \A e \in 1..Len(selected_sites) : selected_sites[e].sites # <<>>

\* C6: every URL _search_region returns for a region, found by domain guessing
\* or by the web search, has itself answered a HEAD with a status below 400.
C6_ProbedUrlsAnswered ==
  \A e \in 1..Len(brand_sites) :
    \A i \in 1..Len(brand_sites[e].sites) :
      <<brand_sites[e].region, brand_sites[e].sites[i].url>> \in okHeads

\* C6 as amended: a URL found by domain guessing has answered a HEAD with a
\* status below 400 when _search_region returns it; a URL found by the web
\* search is returned unprobed, and has answered such a HEAD once it is in the
\* mapping select_best_sites returns.
C6_GuessedOrSelectedAnswered ==
  /\ \A e \in 1..Len(brand_sites) :
       searchLog[Via(brand_sites[e].region)].via = "direct" =>
         \A i \in 1..Len(brand_sites[e].sites) :
           <<brand_sites[e].region, brand_sites[e].sites[i].url>> \in okHeads
  /\ \A e \in 1..Len(selected_sites) :
       \A i \in 1..Len(selected_sites[e].sites) :
         <<selected_sites[e].region, selected_sites[e].sites[i].url>> \in okHeads

\* C6 witness: one region's sites were found by domain guessing, and a site
\* found by the web search is in the returned mapping.
C6_Witness ==
  /\ pc = "done"
  /\ \E e \in 1..Len(brand_sites) : searchLog[Via(brand_sites[e].region)].via = "direct"
  /\ \E e \in 1..Len(selected_sites) :
       /\ searchLog[Via(selected_sites[e].region)].via = "search"
       /\ selected_sites[e].sites # <<>>

InDomainOfRetailer(domain) ==
  \E i \in 1..Len(known_retailers) : Contains(domain, known_retailers[i])

C8_NormalizedBrandOfficial ==
  \A c \in classified :
    Contains(c.domain, NormalizeBrand(brand_name)) => c.type = "official"

\* C9: a discovered site classified unknown is kept in its region's list, after
\* the official and retailer sites.
C9_UnknownRetained ==
  \A c \in classified :
    c.type = "unknown" =>
      \E e \in 1..Len(brand_sites) :
        /\ brand_sites[e].region = c.region
        /\ \E i \in 1..Len(brand_sites[e].sites) :
             /\ brand_sites[e].sites[i] = c
             /\ \A j \in 1..Len(brand_sites[e].sites) :
                  brand_sites[e].sites[j].type # "unknown" => j < i

C10_NeverRaises == raised = FALSE /\ pc # "raised"

\* a region's returned list holds only sites whose own check answered, and as
\* many of them as the cap allows
C10_OwnFailuresOnly ==
  \A e \in 1..Len(selected_sites) :
    LET found   == brand_sites[e].sites
        healthy == {i \in 1..Len(found) : verifyLog[e].oks[i]}
        l       == selected_sites[e].sites
    IN  /\ selected_sites[e].region = brand_sites[e].region
        /\ Len(l) = Min(max_sites, Cardinality(healthy))
        /\ \A k \in 1..Len(l) : \E i \in healthy : found[i].url = l[k].url

\* a step, failing requests included, leaves the entries of the regions
\* handled before it as they were
C10_KeepsOtherRegions ==
  /\ Len(brand_sites) <= Len(brand_sites')
  /\ SubSeq(brand_sites', 1, Len(brand_sites)) = brand_sites
  /\ Len(selected_sites) <= Len(selected_sites')
  /\ SubSeq(selected_sites', 1, Len(selected_sites)) = selected_sites

\* C10: whatever requests fail, select_best_sites does not raise; a failing
\* candidate only empties or shortens its own region's list and removes no
\* site of another region.
C10_FailuresStayLocal ==
  [](C10_NeverRaises /\ C10_OwnFailuresOnly) /\ [][C10_KeepsOtherRegions]_vars

\* C10 witness: the call returned although a check raised (a timeout) and the
\* probes of dead hosts raised; a site of another region is in the mapping.
C10_Witness ==
  /\ pc = "done"
  /\ failing.resp = ExcResp
  /\ \E e \in 1..Len(selected_sites) :
       /\ <<"verify", selected_sites[e].region, 1>> \in failing.reqs
       /\ ~ verifyLog[e].oks[1]
  /\ \E e \in 1..Len(selected_sites) : selected_sites[e].sites # <<>>

\* C17: the web search is used exactly when no guessed domain was reachable;
\* then the queries are issued in order and the second only when the first
\* found no URL; a region whose fallback finds nothing has the empty result
\* and the call does not raise.
C17_FallbackIffNoneReachable ==
  /\ ~raised
  /\ \A k \in 1..Len(searchLog) :
       LET e == searchLog[k]
       IN  /\ (e.reachable # {}) <=> (e.gets = 0)
           /\ (e.reachable = {} /\ e.found1) => e.gets = 1
           /\ (e.reachable = {} /\ ~e.found1) => e.gets = 2
           /\ (e.reachable = {} /\ ~e.found1 /\ ~e.found2) => e.result = <<>>
           /\ (e.reachable # {}) <=> (e.via = "direct")

\* C17 witness: in one call a region was served by its guessed domains without
\* a search, another stopped after its first query, and a third issued both
\* queries, found nothing and has the empty result.
C17_Witness ==
  /\ pc = "done"
  /\ \E k \in 1..Len(searchLog) : searchLog[k].reachable # {} /\ searchLog[k].gets = 0
  /\ \E k \in 1..Len(searchLog) : searchLog[k].gets = 1 /\ searchLog[k].result # <<>>
  /\ \E k \in 1..Len(searchLog) :
       searchLog[k].gets = 2 /\ ~searchLog[k].found2 /\ searchLog[k].result = <<>>

CandidateUrl(prefix, brand, domain) ==
  <<"h","t","t","p","s",":","/","/">> \o prefix \o Replace(Lower(brand), <<" ">>, <<>>) \o <<".">> \o domain

\* C18 as stated: the URLs probed for a region are exactly those built from the
\* two prefixes, the normalised brand and the region's own candidate domains.
C18_OnlyRegionDomains ==
  \A k \in 1..Len(searchLog) :
    Range(searchLog[k].probed) =
      { CandidateUrl(p, brand_name, d) :
          p \in {<<"w","w","w",".">>, <<>>}, d \in Range(regions[searchLog[k].region].domains) }

\* C18 as the code has it: the URLs probed for a region are those built from the
\* two prefixes, the normalised brand and the domain com or one of the region's
\* candidate domains; the list holds four patterns for a region with a single
\* domain (com twice over the prefixes, then that domain) and four more than
\* two per domain otherwise, the first domain's patterns being listed twice.
C18_ComAndRegionDomains ==
  \A k \in 1..Len(searchLog) :
    LET doms == regions[searchLog[k].region].domains
        pats == searchLog[k].probed
    IN  /\ Range(pats) =
             { CandidateUrl(p, brand_name, d) :
                 p \in {<<"w","w","w",".">>, <<>>}, d \in {<<"c","o","m">>} \cup Range(doms) }
        /\ Len(pats) = IF Len(doms) > 1 THEN 4 + 2 * Len(doms) ELSE 4
        /\ pats[1] = CandidateUrl(<<"w","w","w",".">>, brand_name, <<"c","o","m">>)
        /\ pats[2] = CandidateUrl(<<>>, brand_name, <<"c","o","m">>)
        /\ pats[3] = CandidateUrl(<<"w","w","w",".">>, brand_name, doms[1])
        /\ pats[4] = CandidateUrl(<<>>, brand_name, doms[1])

\* C18 witness: Germany, whose only candidate domain is de, has been probed and
\* a pattern under com was among its probes.
C18_Witness ==
  \E k \in 1..Len(searchLog) :
    /\ searchLog[k].region = "Germany"
    /\ regions["Germany"].domains = <<<<"d","e">>>>
    /\ \E i \in 1..Len(searchLog[k].probed) :
         searchLog[k].probed[i] = CandidateUrl(<<"w","w","w",".">>, brand_name, <<"c","o","m">>)

\* ---------------------------------------------- claims on price aggregation
\* the log entries of the calls of search_products for the sites of a region
FoundIn(region) == {k \in 1..Len(foundLog) : foundLog[k].region = region}

RECURSIVE SumLen(_, _)
SumLen(K, log) ==
  IF K = {} THEN 0
  ELSE LET k == CHOOSE x \in K : TRUE
       IN  Len(log[k].products) + SumLen(K \ {k}, log)

EntryOf(site, product) ==
  [site |-> site, price |-> product.price, currency |-> product.currency, name |-> product.name]

C4_NoMatchOmittedPricesPositive ==
  /\ \A e \in 1..Len(aggregated) :
       /\ aggregated[e].prices # <<>>
       /\ \A n \in 1..Len(aggregated[e].prices) : aggregated[e].prices[n].price > 0
  /\ \A g \in 1..(gi - 1) :
       (\A k \in FoundIn(sites_by_region[g].region) : foundLog[k].products = <<>>)
         => \A e \in 1..Len(aggregated) : aggregated[e].region # sites_by_region[g].region

\* C4 witness: the call returned, one region had sites but no match and another
\* had a match.
C4_Witness ==
  /\ apc = "done"
  /\ aggregated # <<>>
  /\ \E g \in 1..Len(sites_by_region) :
       /\ sites_by_region[g].sites # <<>>
       /\ \A k \in FoundIn(sites_by_region[g].region) : foundLog[k].products = <<>>

\* C5: every record search_products returns, and so every entry of the
\* aggregator, has a name that holds the query, letter case ignored.
C5_NamesHoldQuery ==
  /\ \A k \in 1..Len(foundLog) : \A i \in 1..Len(foundLog[k].products) :
       Contains(Lower(foundLog[k].products[i].name), Lower(product_name))
  /\ \A e \in 1..Len(aggregated) : \A n \in 1..Len(aggregated[e].prices) :
       Contains(Lower(aggregated[e].prices[n].name), Lower(product_name))

\* C5 witness: search_products returned a record whose name holds the query in
\* another letter case, from a page that also held a record without the query.
C5_Witness ==
  \E k \in 1..Len(foundLog) :
    /\ \E i \in 1..Len(foundLog[k].products) :
         ~ Contains(foundLog[k].products[i].name, product_name)
    /\ \E j \in 1..4 :
         LET resp == Fetch(SearchUrls(foundLog[k].site, product_name)[j])
         IN  /\ resp.kind = "resp" /\ resp.status = 200
             /\ \E x \in Range(ExtractProductsFromPage(resp.page, foundLog[k].site, 5)) :
                  /\ ~ Contains(Lower(x.name), Lower(product_name))
                  /\ \A i \in 1..Len(foundLog[k].products) : foundLog[k].products[i] # x
             /\ \E x \in Range(ExtractProductsFromPage(resp.page, foundLog[k].site, 5)) :
                  x \in Range(foundLog[k].products)

\* ---------------------------------------------- claims on page extraction
\* a card with a title of at least six characters and a price text that opens
\* with a currency sign and a number above zero
WellFormedCard(c) ==
  LET t == c.body \o c.htext
  IN  /\ Len(c.title) >= 6
      /\ Len(t) >= 2
      /\ t[1] \in Signs
      /\ t[2] \in Digits \ {"0"}

DistinctTitles(cards) ==
  \A i, j \in 1..Len(cards) : i # j => Lower(cards[i].title) # Lower(cards[j].title)

\* C13: extraction of a page of exactly five well-formed cards, with a limit of
\* five or more, returns exactly five records, the i-th bearing the i-th card's
\* title and a price above zero.
C13_FiveCardsFiveRecords ==
  ( /\ epc \in {"extracted", "done"}
    /\ Len(markup) = 5
    /\ \A i \in 1..5 : WellFormedCard(markup[i])
    /\ DistinctTitles(markup)
    /\ limit >= 5 )
  => /\ Len(page_products) = 5
     /\ \A i \in 1..5 : /\ page_products[i].name = markup[i].title
                        /\ page_products[i].price > 0

\* C14: the price scan returns no two records whose names are equal ignoring
\* case, and of two identical cards it returns exactly one record, the first.
C14_IdenticalCardsOneRecord ==
  epc = "done" =>
    /\ \A i, j \in 1..Len(price_products) :
         i # j => Lower(price_products[i].name) # Lower(price_products[j].name)
    /\ ( /\ Len(markup) = 2
         /\ markup[1] = markup[2]
         /\ WellFormedCard(markup[1])
         /\ limit >= 2 )
       => /\ Len(price_products) = 1
          /\ price_products[1].name = markup[1].title

\* the elements the price scan reads on the page
PricedElements == PageOf(markup).priced

\* C15: every record of the price scan has a price above zero and a name of
\* more than five characters and comes from an element that has both; an
\* element whose name has five characters or fewer, or whose price is zero or
\* does not parse, gives no record.
C15_FallbackRecordsValid ==
  epc = "done" =>
    \A priced \in {PricedElements} :
      /\ \A i \in 1..Len(price_products) :
           /\ price_products[i].price > 0
           /\ Len(price_products[i].name) > 5
           /\ \E k \in 1..Len(priced) :
                /\ priced[k].name = price_products[i].name
                /\ priced[k].price = price_products[i].price
      /\ \A k \in 1..Len(priced) :
           (priced[k].price = 0 \/ Len(priced[k].name) <= 5)
             => \A i \in 1..Len(price_products) :
                  ~ ( /\ price_products[i].name = priced[k].name
                      /\ price_products[i].price = priced[k].price )
      /\ Len(price_products) <= Len(priced)

\* C15 witness: the scan read an element with a short name and a price, an
\* element whose price text holds no digit and one priced zero, and returned
\* records of the others.
C15_Witness ==
  /\ epc = "done"
  /\ price_products # <<>>
  /\ \E k \in 1..Len(PricedElements) :
       Len(PricedElements[k].name) <= 5 /\ PricedElements[k].price > 0
  /\ \E i \in 1..Len(markup) : (markup[i].body \o markup[i].htext) = <<"dollar_sign", ",">>
  /\ \E i \in 1..Len(markup) :
       (markup[i].body \o markup[i].htext) = <<"dollar_sign">> \o <<"0",".","0","0">>

\* the rule of the currency on a text: EUR for the euro sign or the letters
\* EUR in any case, else GBP for the pound sign or the letters GBP, else USD
TextRule(t) ==
  IF "euro_sign" \in Range(t) \/ Contains(Upper(t), <<"E","U","R">>) THEN "EUR"
  ELSE IF "pound_sign" \in Range(t) \/ Contains(Upper(t), <<"G","B","P">>) THEN "GBP"
  ELSE "USD"

\* the texts of the elements a record of this name can come from: a container
\* bears its heading, a child element bears no name of its own
StructuredTexts(name) ==
  {CardText(markup[i]) : i \in {j \in 1..Len(markup) :
      name = (IF markup[j].title # <<>> THEN markup[j].title ELSE <<"P","r","o","d","u","c","t">>)}}
    \cup {markup[i].htext : i \in {j \in 1..Len(markup) :
            markup[j].holder # "none" /\ name = <<"P","r","o","d","u","c","t">>}}

ScannedTexts(name) ==
  {CardText(markup[i]) : i \in {j \in 1..Len(markup) :
      name = ContainerName(markup[j], DocText(markup))}}
    \cup {markup[i].htext : i \in {j \in 1..Len(markup) :
            markup[j].holder # "none" /\ name = Take(CardText(markup[j]), 50)}}

\* C16 as stated: on both paths the currency of a record is the rule applied
\* to the text of the element the record was read from.
C16_OneRuleBothPaths ==
  epc = "done" =>
    /\ epath = "selectors" =>
         \A i \in 1..Len(page_products) :
           \E t \in StructuredTexts(page_products[i].name) :
             page_products[i].currency = TextRule(t)
    /\ \A i \in 1..Len(price_products) :
         \E t \in ScannedTexts(price_products[i].name) :
           price_products[i].currency = TextRule(t)

\* C16 as the code has it: the currency is always USD, EUR or GBP; a record of
\* the selector path has the rule applied to the whole text of its element;
\* a record of the price scan has the currency of the one sign that opens the
\* price matched in its element, whatever else the element's text holds.
C16_CurrencyPerPath ==
  epc = "done" =>
    /\ \A i \in 1..Len(page_products) : page_products[i].currency \in {"USD", "EUR", "GBP"}
    /\ \A i \in 1..Len(price_products) : price_products[i].currency \in {"USD", "EUR", "GBP"}
    /\ epath = "selectors" =>
         \A i \in 1..Len(page_products) :
           \E t \in StructuredTexts(page_products[i].name) :
             /\ ElementPrice(t) = page_products[i].price
             /\ page_products[i].currency = TextRule(t)
    /\ \A i \in 1..Len(price_products) :
         \E t \in ScannedTexts(price_products[i].name) :
           /\ SearchSignPrice(t) # <<>>
           /\ price_products[i].currency = TextRule(<<SearchSignPrice(t)[1]>>)

\* C16 witness: a card whose text holds a pound price and then a euro price is
\* read as EUR by the selector path and as GBP by the price scan.
C16_Witness ==
  /\ epc = "done"
  /\ epath = "selectors"
  /\ \E i \in 1..Len(page_products), j \in 1..Len(price_products) :
       /\ page_products[i].name = price_products[j].name
       /\ page_products[i].price = price_products[j].price
       /\ page_products[i].currency = "EUR"
       /\ price_products[j].currency = "GBP"

\* ---------------------------------------------- claims on product listing
StrategyOrder == <<"search_all", "shop_page", "category_page", "collections">>

\* the strategies whose result holds three records or more
Accepted == {i \in 1..Len(strategies) : Len(strategies[i].products) >= 3}

\* C11: get_top_products returns the records of the first strategy, in the
\* order search_all, shop_page, category_page, collections, that yields three
\* records or more, cut to limit; with no such strategy it returns the empty list.
C11_FirstStrategyWithThree ==
  tpc \in {"returned", "searched"} =>
    /\ [i \in 1..Len(strategies) |-> strategies[i].name] = StrategyOrder
    /\ Accepted = {} => top_products = <<>>
    /\ Accepted # {} =>
         \E i \in Accepted :
           /\ \A j \in Accepted : i <= j
           /\ Len(top_products) = Min(top_limit, Len(strategies[i].products))
           /\ \A n \in 1..Len(top_products) : top_products[n] = strategies[i].products[n]

\* C11 witness: an earlier strategy found one or two records, a later one found
\* more than limit and at least three, and the call returned limit of them.
C11_Witness ==
  /\ tpc = "returned"
  /\ \E i, j \in 1..Len(strategies) :
       /\ i < j
       /\ Len(strategies[i].products) \in {1, 2}
       /\ \A k \in 1..(j - 1) : Len(strategies[k].products) < 3
       /\ Len(strategies[j].products) >= 3
       /\ Len(strategies[j].products) > top_limit
       /\ top_products = SubSeq(strategies[j].products, 1, top_limit)

\* C12: once a strategy has yielded three records or more, no later strategy
\* of the call has issued a GET.
C12_NoRequestAfterAccepted ==
  \A i \in Accepted :
    \A k \in 1..Len(requests) :
      requests[k].strategy \in {StrategyOrder[j] : j \in 1..i} \cup {"search_products"}

\* the URL list a GET of the history belongs to: the fixed list of its
\* strategy, or the category links of the home page
UrlListOf(request) ==
  CASE request.strategy = "search_all"      -> SearchPatterns(SiteA, <<"a","l","l">>)
    [] request.strategy = "shop_page"       -> ShopUrls(SiteA)
    [] request.strategy = "collections"     -> CollectionsUrls(SiteA)
    [] request.strategy = "search_products" -> SearchUrls(SiteA, query)
    [] request.strategy = "category_page"   ->
         IF Failed(TopFetch(RStripSlash(SiteA))) THEN <<>>
         ELSE CategoryLinks(TopFetch(RStripSlash(SiteA)).page.links, SiteA)

\* the GETs of one strategy that were answered with a page
Fetched(name) ==
  {k \in 1..Len(requests) : requests[k].strategy = name /\ ~requests[k].failed}

\* C19: a GET that fails (an exception or a status other than 200) does not end
\* its strategy: when its URL is not the last of the strategy's list, the next
\* GET issued is that of the next URL of the list; and every record a strategy
\* or search_products returns was read on a page that was fetched with success.
C19_FailedFetchMovesOn ==
  /\ \A k \in 1..Len(requests) :
       requests[k].failed =>
         \A j \in 1..(Len(UrlListOf(requests[k])) - 1) :
           UrlListOf(requests[k])[j] = requests[k].url
           => /\ k < Len(requests)
              /\ requests[k + 1].strategy = requests[k].strategy
              /\ requests[k + 1].url = UrlListOf(requests[k])[j + 1]
  /\ \A i \in 1..Len(strategies) :
       \A n \in 1..Len(strategies[i].products) :
         \E k \in Fetched(strategies[i].name) :
           \E m \in 1..Len(ExtractProductsFromPage(TopFetch(requests[k].url).page, SiteA, top_limit)) :
             ExtractProductsFromPage(TopFetch(requests[k].url).page, SiteA, top_limit)[m]
               = strategies[i].products[n]
  /\ \A n \in 1..Len(search_products) :
       \E k \in Fetched("search_products") :
         \E m \in 1..Len(ExtractProductsFromPage(TopFetch(requests[k].url).page, SiteA, 5)) :
           ExtractProductsFromPage(TopFetch(requests[k].url).page, SiteA, 5)[m] = search_products[n]

\* C19 witness: in one run a GET that raised and a GET answered with an error
\* status were each followed by the GET of the next URL, a category page was
\* fetched after two failed ones and gave the strategy its records, and
\* search_products went through all its URLs although each failed.
C19_Witness ==
  /\ tpc = "searched"
  /\ \E k \in 1..(Len(requests) - 1) :
       /\ requests[k].failed /\ TopFetch(requests[k].url).kind = "exc"
       /\ requests[k + 1].strategy = requests[k].strategy
  /\ \E k \in 1..(Len(requests) - 2) :
       /\ requests[k].strategy = "category_page" /\ requests[k].failed
       /\ requests[k + 1].strategy = "category_page" /\ requests[k + 1].failed
       /\ requests[k + 2].strategy = "category_page" /\ ~requests[k + 2].failed
  /\ Len(strategies[3].products) >= 3
  /\ Cardinality({k \in 1..Len(requests) :
                    requests[k].strategy = "search_products" /\ requests[k].failed}) = 4

\* ------------------------------------------------ claims on the best deal
\* the prices the selection is made among
Offered == SelectSeq(row, IsPresent)

\* C20: over a non-empty set of price entries each best-deal selection
\* (calculate_best_deal, the cheapest entry of get_price_comparison, best_entry
\* of app.py) gives an entry whose price is no higher than that of any other
\* entry; calculate_best_deal gives None for no prices and, of several regions
\* with the least price, the first of the mapping.
C20_BestDealIsMinimum ==
  dpc = "done" =>
    /\ Offered = <<>> => min_region = "None"
    /\ Offered # <<>> =>
         /\ \E i \in 1..Len(Offered) :
              /\ Offered[i].region = min_region
              /\ \A j \in 1..Len(Offered) : Offered[i].price <= Offered[j].price
              /\ \A j \in 1..(i - 1) : Offered[j].price > Offered[i].price
         /\ \E i \in 1..Len(Offered) :
              /\ Offered[i].region = cheapest.region
              /\ Offered[i].price = cheapest.price
              /\ \A j \in 1..Len(Offered) : cheapest.price <= Offered[j].price
         /\ \E i \in 1..Len(Offered) :
              /\ Offered[i].region = best_entry.region
              /\ Offered[i].price = best_entry.price
              /\ \A j \in 1..Len(Offered) : best_entry.price <= Offered[j].price

\* ---------------------------------------- claims on the order of the sites
\* C21: in each region's list returned by select_best_sites the scores never
\* rise, and sites of equal score stand in the order in which _search_region
\* listed them.
C21_ScoreOrderStable ==
  \A e \in 1..Len(selected_sites) :
    LET l == selected_sites[e].sites
        d == brand_sites[e].sites
    IN  /\ \A i, j \in 1..Len(l) : i < j => l[i].score >= l[j].score
        /\ \E f \in [1..Len(l) -> 1..Len(d)] :
             /\ \A i \in 1..Len(l) :
                  /\ verifyLog[e].oks[f[i]]
                  /\ d[f[i]].url = l[i].url
                  /\ d[f[i]].type = l[i].type
             /\ \A i, j \in 1..Len(l) :
                  (i < j /\ l[i].score = l[j].score) => f[i] < f[j]

\* C21 witness: the call returned a list with two different sites of one score,
\* and a list with sites of both scores.
C21_Witness ==
  /\ pc = "done"
  /\ \E e \in 1..Len(selected_sites) :
       \E i, j \in 1..Len(selected_sites[e].sites) :
          /\ i < j
          /\ selected_sites[e].sites[i].score = selected_sites[e].sites[j].score
          /\ selected_sites[e].sites[i].url # selected_sites[e].sites[j].url
  /\ \E e \in 1..Len(selected_sites) :
       \E i, j \in 1..Len(selected_sites[e].sites) :
          selected_sites[e].sites[i].score > selected_sites[e].sites[j].score

\* -------------------------------------------- claims on repeated searches
\* C22: a call of select_best_sites on an instance that served earlier calls,
\* for the same or for other brands, returns for a brand what the first call
\* on the instance returned for that brand under the same network responses.
C22_RepeatedSearchEqual ==
  pc = "done" =>
    \A k \in 1..Len(returned) :
      returned[k].brand_name = brand_name => returned[k].result = selected_sites

\* C22 witness: the third call on an instance returned a non-empty mapping for
\* the brand of the first call, a search for another brand lying between them.
C22_Witness ==
  /\ pc = "done"
  /\ Len(returned) = 2
  /\ returned[1].brand_name = brand_name
  /\ returned[2].brand_name # brand_name
  /\ returned[2].result # <<>>
  /\ \E e \in 1..Len(selected_sites) : Len(selected_sites[e].sites) > 1

\* ------------------------------------------------- claims on termination
\* select_best_sites has returned or has let an exception out
Ended == pc \in {"done", "raised"}

\* no URL stands twice in the list of candidates probed for a region, and no
\* region is searched or verified twice
NoRepeat ==
  /\ \A k \in 1..Len(searchLog) :
       \A i, j \in 1..Len(searchLog[k].probed) :
          i # j => searchLog[k].probed[i] # searchLog[k].probed[j]
  /\ \A k, l \in 1..Len(searchLog) : k # l => searchLog[k].region # searchLog[l].region
  /\ \A k, l \in 1..Len(verifyLog) : k # l => verifyLog[k].region # verifyLog[l].region

\* the requests of a call are bounded: per region one HEAD for each pattern
\* (at most eight) and at most two search GETs, then one HEAD per site found
BoundedRequests ==
  /\ Len(searchLog) <= Len(RegionOrder)
  /\ \A k \in 1..Len(searchLog) : searchLog[k].heads <= 8 /\ searchLog[k].gets <= 2
  /\ \A k \in 1..Len(verifyLog) : Len(verifyLog[k].oks) <= 8 + 3

\* C23: when every request is answered, select_best_sites ends, after a
\* bounded number of requests, without requesting a candidate URL twice and
\* without visiting a region twice.
C23_EndsWithoutRepeat == <>Ended /\ []BoundedRequests /\ []NoRepeat

\* --------------------------------------------------- claims on discounts
EndsWith(s, suffix) ==
  Len(s) >= Len(suffix) /\ SubSeq(s, Len(s) - Len(suffix) + 1, Len(s)) = suffix

Unusable(x) == x.kind # "num" \/ x.value = 0

\* C24: _calculate_discount returns 'N/A' when an argument is missing, NaN or
\* zero; otherwise its result ends in '% OFF' exactly when current < original,
\* in '% UP' exactly when current > original, and is 'No Change' exactly when
\* the two are equal.
C24_DiscountBySign ==
  cpc = "done" =>
    IF Unusable(original) \/ Unusable(current) THEN discount = <<"N","/","A">>
    ELSE /\ EndsWith(discount, <<"%"," ","O","F","F">>) <=> current.value < original.value
         /\ EndsWith(discount, <<"%"," ","U","P">>) <=> current.value > original.value
         /\ discount = <<"N","o"," ","C","h","a","n","g","e">> <=> current.value = original.value

\* C24 witness: the call with 100 and 75 returned '25.0% OFF'.
C24_Witness ==
  /\ cpc = "done"
  /\ original = [kind |-> "num", value |-> 100]
  /\ current = [kind |-> "num", value |-> 75]
  /\ discount = <<"2","5",".","0","%"," ","O","F","F">>

\* ---------------------------------------------------- claims on the cache
\* C26: get_cached_results returns the cached data only if the time gone by
\* since cache_results wrote it is at most duration seconds; after any longer
\* time, one day or more included, it returns None and removes the file.
C26_ExpiredNeverReturned ==
  kpc = "read" =>
    LET age == now - cache_file.timestamp
    IN  /\ cached = "data" => age <= cache_file.duration
        /\ age > cache_file.duration => (cached = "None" /\ ~cache_file.exists)

\* ------------------------------------------- claims on the selector scan
\* what the loop over the selectors ended with on the page
Scan == ScanSelectors(PageOf(markup).selected, 1, <<>>, SiteA, limit)

\* C25: when the selector scan of _extract_products_from_page ends with fewer
\* than three records, the price scan is applied and its records are returned.
C25_FewerThanThreeFallsBack ==
  epc = "done" =>
    (Len(Scan.products) < 3 => page_products = price_products)

\* the records the k-th selector alone gives: those of its first `limit`
\* elements, when it matches at least three
OfSelector(k) ==
  LET elements == PageOf(markup).selected[k]
  IN  IF Len(elements) >= 3 THEN ExtractElements(Take(elements, limit), SiteA) ELSE <<>>

\* C28: _extract_products_from_page returns at most limit records, and the
\* records the selector scan returns all come from the elements of one
\* selector.
C28_AtMostLimitOneSelector ==
  epc = "done" =>
    /\ Len(page_products) <= limit
    /\ epath = "selectors" => \E k \in 1..7 : page_products = OfSelector(k)

\* ------------------------------------------- claims on repeated sites
\* C27: in the list of a region, as _search_region returns it and as
\* select_best_sites returns it, no URL stands twice.
C27_NoUrlTwice ==
  /\ \A e \in 1..Len(brand_sites) :
       \A i, j \in 1..Len(brand_sites[e].sites) :
          i # j => brand_sites[e].sites[i].url # brand_sites[e].sites[j].url
  /\ \A e \in 1..Len(selected_sites) :
       \A i, j \in 1..Len(selected_sites[e].sites) :
          i # j => selected_sites[e].sites[i].url # selected_sites[e].sites[j].url

\* --------------------------------------------------- claims on markups
\* C29: calculate_price_markup returns the empty mapping for fewer than two
\* prices; for two or more prices, none below zero, it returns without raising
\* one markup per region, none below zero, that of the cheapest region being
\* zero.
C29_MarkupPerRegion ==
  mpc = "done" =>
    IF Len(product_prices) < 2 THEN markups = <<>> /\ ~markup_raised
    ELSE /\ ~markup_raised
         /\ Len(markups) = Len(product_prices)
         /\ \A i \in 1..Len(markups) :
              /\ markups[i].region = product_prices[i].region
              /\ markups[i].num * markups[i].den >= 0
              /\ (\A j \in 1..Len(product_prices) :
                     product_prices[i].price <= product_prices[j].price)
                   => markups[i].num = 0

\* ------------------------------------------------------------------ C30
KeysOf(d) == { d[i].region : i \in 1..Len(d) }

\* the requested regions that are configured for the brand
Usable == { requested[i] : i \in 1..Len(requested) } \cap ConfiguredRegions(scraped_brand)

\* the names a region's page gives: those of the priced, named elements among
\* its first ten
NamesOf(region) ==
  IF region_pages[region].kind = "exc" \/ region_pages[region].status >= 400 THEN {}
  ELSE { Lower(region_pages[region].elements[i].name) :
           i \in { j \in 1..Len(region_pages[region].elements) :
                     /\ j <= RegionLimit
                     /\ region_pages[region].elements[j].name # <<>>
                     /\ region_pages[region].elements[j].has_price } }

\* C30: scrape_brand_regional returns at most one entry per product name
\* compared case-insensitively; in each entry 'prices' and 'links' have the
\* same keys, all of them requested regions configured for the brand; an
\* unknown brand yields the empty list; an unconfigured region and a region
\* whose request fails add nothing and take nothing from the other regions,
\* whose products are all present; and no region is in more than ten entries.
C30_RegionalMerge ==
  rpc = "done" =>
    /\ \A i, j \in 1..Len(regional) :
         Lower(regional[i].name) = Lower(regional[j].name) => i = j
    /\ \A i \in 1..Len(regional) :
         /\ KeysOf(regional[i].prices) = KeysOf(regional[i].links)
         /\ KeysOf(regional[i].prices) \subseteq Usable
         /\ KeysOf(regional[i].prices) # {}
    /\ ~BrandKnown(scraped_brand) => regional = <<>>
    /\ BrandKnown(scraped_brand) =>
         \A r \in RequestedRegions :
           { Lower(regional[i].name) : i \in { j \in 1..Len(regional) : r \in KeysOf(regional[j].prices) } }
             = IF r \in Usable THEN NamesOf(r) ELSE {}
    /\ \A r \in RequestedRegions :
         Cardinality({ i \in 1..Len(regional) : r \in KeysOf(regional[i].prices) }) <= RegionLimit

\* a call that asked for an unconfigured region, a failing one and a page of
\* twelve products, and returned one entry with two regions for a name spelt
\* in two cases
C30_Witness ==
  /\ rpc = "done"
  /\ \E i \in 1..Len(requested) : requested[i] \notin ConfiguredRegions(scraped_brand)
  /\ \E r \in Usable : region_pages[r].kind = "resp" /\ Len(region_pages[r].elements) > RegionLimit
  /\ \E i \in 1..Len(regional) :
       /\ Cardinality(KeysOf(regional[i].prices)) >= 2
       /\ regional[i].name # Lower(regional[i].name)
  /\ \E r \in RequestedRegions :
       Cardinality({ i \in 1..Len(regional) : r \in KeysOf(regional[i].prices) }) = RegionLimit

\* a call during which the request of a requested, configured region failed
C30_FailedRegionWitness ==
  /\ rpc = "done"
  /\ regional # <<>>
  /\ \E r \in Usable : region_pages[r].kind = "exc" \/ region_pages[r].status >= 400

====
